---- MODULE Spec2Model ----
(***************************************************************************)
(* The standup workflow of src/src/workflows/standupWorkflow.js as a state *)
(* machine.  The workflow object is one instance of StandupWorkflow; its   *)
(* methods are async functions that run on the single JavaScript thread    *)
(* and give up control at every await on an external call (Slack post,     *)
(* LLM call, JIRA call, the 1 s delay).  A handler that is suspended at    *)
(* such an await is a record in the bag `tasks'; one step of the model is  *)
(* the code a handler runs between two awaits.  An await on an async       *)
(* method of the workflow itself (for instance _askNextDeveloper) runs the *)
(* callee synchronously up to the callee's first external await, so it is  *)
(* part of the caller's step.                                              *)
(***************************************************************************)
EXTENDS Integers, Sequences, FiniteSets, Bags, TLC

\* ---- bounds of the model ----
NumUsers == 2
MaxInflight == 2
MaxUpdates == 1
MaxBlockers == 1
MaxSkipCalls == 1
MaxReplies == 3
MaxReminders == 2

\* ---- program constants ----
MAX_IN_PROGRESS_EXCHANGES == 3
MAX_TODO_EXCHANGES == 3

Users == 1 .. NumUsers
\* the team of the model: the odd members have one to-do item, the others none
TodoTasks(u) == u % 2
\* a Slack user that is not a member of the team: never gets a session
Outsider == 0
Senders == Users \cup {Outsider}
\* currentDeveloper === null
NoDeveloper == 0

StandupState == [NOT_STARTED |-> "not_started",
                 ASKING_IN_PROGRESS |-> "asking_in_progress",
                 IN_PROGRESS_FOLLOWUP |-> "in_progress_followup",
                 ASKING_TODO |-> "asking_todo",
                 TODO_FOLLOWUP |-> "todo_followup",
                 COMPLETED |-> "completed",
                 SKIPPED |-> "skipped",
                 NEEDS_FOLLOWUP |-> "needs_followup"]

StandupPhase == [NOT_STARTED |-> "not_started",
                 IN_PROGRESS |-> "in_progress",
                 COMPLETED |-> "completed"]

VARIABLES standupPhase, standupThreadTs, sessions, developerQueue,
          currentDeveloper, unavailableDevelopers, userTimeouts,
          orphanTimers, tasks, sent, summaryCount, skipCalls,
          pendingBlockerQuestions, detached,
          jiraTasks, inProgressTasks, tasksToAskAbout, classification,
          satisfactory, fnStep

\* the variables of the runs that apply one function of the workflow to an
\* input: the tasks that getUserTasks returned and what _categorizeTasks and
\* _askAboutInProgressTasks make of them, the result of the classifier and
\* what _isResponseSatisfactory says of it, and the step the run has reached.
\* In the runs of the workflow they stay as Init leaves them.
functionVars == <<jiraTasks, inProgressTasks, tasksToAskAbout, classification,
                  satisfactory, fnStep>>
workflowVars == <<standupPhase, standupThreadTs, sessions, developerQueue,
                  currentDeveloper, unavailableDevelopers, userTimeouts,
                  orphanTimers, tasks, sent, summaryCount, skipCalls,
                  pendingBlockerQuestions, detached>>

vars == <<standupPhase, standupThreadTs, sessions, developerQueue,
          currentDeveloper, unavailableDevelopers, userTimeouts,
          orphanTimers, tasks, sent, summaryCount, skipCalls,
          pendingBlockerQuestions, detached, functionVars>>

\* ---- helpers on session states ----
TerminalStates == {StandupState.COMPLETED, StandupState.SKIPPED,
                   StandupState.NEEDS_FOLLOWUP}
AskingStates == {StandupState.ASKING_IN_PROGRESS, StandupState.IN_PROGRESS_FOLLOWUP,
                 StandupState.ASKING_TODO, StandupState.TODO_FOLLOWUP}

HasSession(u) == u \in DOMAIN sessions
IsTerminal(u) == HasSession(u) /\ sessions[u].state \in TerminalStates
IsAsking(u) == HasSession(u) /\ sessions[u].state \in AskingStates

\* the session object built by startDailyStandup for one member
NewSession(u) == [state |-> StandupState.NOT_STARTED,
                     todoTasks |-> TodoTasks(u),
                     updates |-> 0,
                     blockers |-> 0,
                     inProgressExchangeCount |-> 0,
                     todoExchangeCount |-> 0,
                     inProgressSatisfactory |-> TRUE,
                     todoSatisfactory |-> TRUE,
                     unsatisfactoryReasons |-> 0,
                     skipTodoItems |-> FALSE,
                     completedAt |-> FALSE,
                     conversationHistory |-> 0,
                     mentions |-> {},
                     blockerNotes |-> {},
                     reminders |-> 0]

\* ---- the result of llmService.analyzeStandupResponse ----
\* taskUpdates is the number of updates, progressInfo says whether one of
\* them carries a progress note or a timeline, newStatus whether one of them
\* carries a status change (which makes _processUserResponse call JIRA),
\* longSummary whether summary.length > 20.
\* blocking is the participant that the blocker names (NoDeveloper: the
\* blocker names nobody of the team) and blockerText its description.
BlockerTexts == {"quoted", "canonical"}
AnalysisRecords == [isOffTopic : BOOLEAN, taskUpdates : 0 .. 1, progressInfo : BOOLEAN,
                    newStatus : BOOLEAN, blockers : 0 .. 1,
                    needsClarification : BOOLEAN, longSummary : BOOLEAN,
                    blocking : 0 .. NumUsers, blockerText : BlockerTexts]
An(off, upd, prog, stat, blk, clar, long) ==
    [isOffTopic |-> off, taskUpdates |-> upd, progressInfo |-> prog, newStatus |-> stat,
     blockers |-> blk, needsClarification |-> clar, longSummary |-> long,
     blocking |-> 0, blockerText |-> "quoted"]
\* a fallback whose summary is longer than 20 characters
FallbackAnalysisLongSummary == An(FALSE, 0, FALSE, FALSE, 0, FALSE, TRUE)

\* what analyzeStandupResponse returns when the LLM call throws or times out
\* or its output holds no JSON: no update, no blocker, not off-topic, no
\* clarification needed, summary 'Update received.' (16 characters)
FallbackAnalysis == An(FALSE, 0, FALSE, FALSE, 0, FALSE, FALSE)

\* the analyses the replies of the model draw: off-topic; the fallback of
\* analyzeStandupResponse (nothing extracted, summary 'Update received.');
\* a clear summary without updates; an update with progress note, status
\* change and blocker; an update without progress that needs clarification,
\* with and without status change
Analyses == { An(TRUE, 0, FALSE, FALSE, 0, FALSE, FALSE),
              FallbackAnalysis,
              An(FALSE, 0, FALSE, FALSE, 0, FALSE, TRUE),
              An(FALSE, 1, TRUE, TRUE, 1, FALSE, TRUE),
              An(FALSE, 1, FALSE, FALSE, 0, TRUE, TRUE),
              An(FALSE, 1, FALSE, TRUE, 1, TRUE, FALSE) }
NoAnalysis == An(FALSE, 0, FALSE, FALSE, 0, FALSE, FALSE)

\* _isResponseSatisfactory with the rule of the to-do phase in both phases
IsResponseSatisfactoryTodoRule(analysis, phase) ==
    LET hasUpdates == analysis.taskUpdates > 0
        hasProgressInfo == analysis.progressInfo
        needsClarification == analysis.needsClarification
        hasSummary == analysis.longSummary
    IN  IF phase \in {"in_progress", "todo"}
        THEN hasUpdates \/ (hasSummary /\ ~needsClarification)
        ELSE hasSummary

IsResponseSatisfactory(analysis, phase) ==
    LET hasUpdates == analysis.taskUpdates > 0
        hasProgressInfo == analysis.progressInfo
        needsClarification == analysis.needsClarification
        hasSummary == analysis.longSummary
    IN  IF phase = "in_progress"
        THEN (hasUpdates /\ hasProgressInfo) \/ (hasSummary /\ ~needsClarification)
        ELSE IF phase = "todo"
        THEN hasUpdates \/ (hasSummary /\ ~needsClarification)
        ELSE hasSummary

\* ---- timers ----
\* userTimeouts[u] is the pending timer recorded for u in the userTimeouts
\* map ("none": no entry, or an entry whose timer has already fired, which
\* clearTimeout ignores).  orphanTimers are timers that are still pending
\* although the map entry of their user was overwritten by a later set().
TimerKinds == {"initial", "final"}
NoTimeouts == [u \in Users |-> "none"]
ClearUserTimeout(ut, u) == [ut EXCEPT ![u] = "none"]
SetUserTimeout(ut, u) == [ClearUserTimeout(ut, u) EXCEPT ![u] = "initial"]

Timer(u, k) == [user |-> u, kind |-> k]
Armed(u) == userTimeouts[u] # "none" \/ \E k \in TimerKinds : BagIn(Timer(u, k), orphanTimers)

\* ---- suspended handlers ----
\* message is what the handler keeps of the text of the message it
\* processes: the team member that the text names as blocking, in a phrase
\* that the patterns of _extractBlockersFromMessage match (NoDeveloper: none)
Task(pc, u) == [pc |-> pc, user |-> u, analysis |-> NoAnalysis, message |-> 0]
TaskM(pc, u, m) == [pc |-> pc, user |-> u, analysis |-> NoAnalysis, message |-> m]
TaskA(pc, u, a, m) == [pc |-> pc, user |-> u, analysis |-> a, message |-> m]
Spawn(t) == SetToBag({t})
Running == BagToSet(tasks)

Msg(k, u) == [kind |-> k, to |-> u]

\* handlers in flight plus pending timers
Inflight == BagCardinality(tasks) + BagCardinality(orphanTimers)
            + Cardinality({u \in Users : userTimeouts[u] # "none"})
\* an inbound message that clears the timeout of u and suspends one more
\* handler is taken only if that leaves at most MaxInflight of them
RoomFor(u) == Inflight - (IF userTimeouts[u] # "none" THEN 1 ELSE 0) < MaxInflight

\* no classification (analysis is null or undefined)
NoClassification ==
    [present |-> FALSE, taskUpdates |-> << >>, summaryLength |-> 0,
     needsClarification |-> FALSE]

FunctionVarsIdle ==
    /\ jiraTasks = << >>
    /\ inProgressTasks = << >>
    /\ tasksToAskAbout = << >>
    /\ classification = NoClassification
    /\ satisfactory = FALSE
    /\ fnStep = "idle"

\* the workflow object after its constructor
WorkflowIdle ==
    /\ standupPhase = StandupPhase.NOT_STARTED
    /\ standupThreadTs = FALSE
    /\ sessions = << >>
    /\ developerQueue = << >>
    /\ currentDeveloper = NoDeveloper
    /\ unavailableDevelopers = {}
    /\ userTimeouts = NoTimeouts
    /\ orphanTimers = EmptyBag
    /\ tasks = EmptyBag
    /\ sent = {}
    /\ summaryCount = 0
    /\ skipCalls = 0
    /\ pendingBlockerQuestions = EmptyBag
    /\ detached = {}

Init == WorkflowIdle /\ FunctionVarsIdle


\* ---- the blocker ledger ----
\* pendingBlockerQuestions maps the name of a blocking person to the list of
\* blockers noted against it; the model keeps the list entries in a bag, each
\* with its key.  The text of a blocker is "quoted", the words of the reply as
\* the classifier returned them, or "canonical", the description
\* `Blocked on <full name>` that _extractBlockersFromMessage builds.
BlockerEntry(owner, blockedUser, text) ==
    [owner |-> owner, blockedUser |-> blockedUser, text |-> text]

\* _trackBlockerForLater without the alreadyTracked test
TrackBlockerForLaterAlways(ledger, owner, blockedUser, text) ==
    ledger (+) SetToBag({BlockerEntry(owner, blockedUser, text)})

\* _trackBlockerForLater for an identified blocking person
TrackBlockerForLater(ledger, owner, blockedUser, text) ==
    IF BagIn(BlockerEntry(owner, blockedUser, text), ledger)
    THEN ledger
    ELSE ledger (+) SetToBag({BlockerEntry(owner, blockedUser, text)})

\* _getPendingBlockerQuestionsForUser: the entries whose key names u
GetPendingBlockerQuestionsForUser(u) ==
    {e \in BagToSet(pendingBlockerQuestions) : e.owner = u}

\* one line of the blocker alert in the prompt of u
BlockerAlert(u, e) ==
    [kind |-> "blocker_alert", to |-> u, blockedUser |-> e.blockedUser, text |-> e.text]

\* ---- queue advancement ----
RECURSIVE AskNextLoop(_, _, _)
\* the loop without the test on unavailableDevelopers
AskNextLoopNoSkip(queue, ss, unav) ==
    IF queue = << >>
    THEN [queue |-> queue, sessions |-> ss, next |-> NoDeveloper]
    ELSE [queue |-> Tail(queue), sessions |-> ss, next |-> Head(queue)]

\* the while loop of _askNextDeveloper: shift sessions off the queue, marking
\* the unavailable ones SKIPPED, until an available one is found
AskNextLoop(queue, ss, unav) ==
    IF queue = << >>
    THEN [queue |-> queue, sessions |-> ss, next |-> NoDeveloper]
    ELSE LET nextSession == Head(queue)
         IN  IF nextSession \in unav
             THEN AskNextLoop(Tail(queue),
                              [ss EXCEPT ![nextSession].state = StandupState.SKIPPED], unav)
             ELSE [queue |-> Tail(queue), sessions |-> ss, next |-> nextSession]

\* allUpdates.length > 0 in _sendStandupSummary
AllUpdatesNonEmpty(ss) ==
    \E u \in DOMAIN ss :
        \/ ss[u].state = StandupState.COMPLETED
        \/ ss[u].state = StandupState.NEEDS_FOLLOWUP /\ ss[u].updates > 0

\* _completeStandup with the synchronous head of _sendStandupSummary
CompleteStandup(ss, rest) ==
    /\ standupPhase' = StandupPhase.COMPLETED
    /\ userTimeouts' = NoTimeouts
    /\ IF AllUpdatesNonEmpty(ss)
       THEN /\ tasks' = rest (+) Spawn(Task("summaryLLM", NoDeveloper))
            /\ sent' = {}
            /\ summaryCount' = summaryCount
       ELSE /\ tasks' = rest (+) Spawn(Task("summarySend", NoDeveloper))
            /\ sent' = {Msg("summary", NoDeveloper)}
            /\ summaryCount' = summaryCount + 1

\* _askNextDeveloper with a _sendInitialPrompt that leaves skipTodoItems as
\* it is (without lines 349 and 393)
AskNextDeveloperKeepsTodo(queue, ss, unav, ut, rest) ==
    LET r == AskNextLoop(queue, ss, unav)
    IN  /\ developerQueue' = r.queue
        /\ currentDeveloper' = r.next
        /\ IF r.next # NoDeveloper
           THEN /\ sessions' = [r.sessions EXCEPT
                                   ![r.next].state = StandupState.ASKING_IN_PROGRESS,
                                   ![r.next].reminders = 0]
                /\ standupPhase' = standupPhase
                /\ userTimeouts' = ut
                /\ summaryCount' = summaryCount
                /\ sent' = {Msg("prompt", r.next)}
                            \cup {BlockerAlert(r.next, e) :
                                     e \in GetPendingBlockerQuestionsForUser(r.next)}
                /\ tasks' = rest (+) Spawn(Task("prompt", r.next))
           ELSE /\ sessions' = r.sessions
                /\ CompleteStandup(r.sessions, rest)

\* _askNextDeveloper, run up to its first external await: either the prompt
\* of the next developer is being posted (_sendInitialPrompt and
\* _askAboutInProgressTasks up to sendMessage) or the standup is completed
AskNextDeveloper(queue, ss, unav, ut, rest) ==
    LET r == AskNextLoop(queue, ss, unav)
    IN  /\ developerQueue' = r.queue
        /\ currentDeveloper' = r.next
        /\ IF r.next # NoDeveloper
           THEN /\ sessions' = [r.sessions EXCEPT
                                   ![r.next].state = StandupState.ASKING_IN_PROGRESS,
                                   ![r.next].skipTodoItems = TRUE,
                                   ![r.next].reminders = 0]
                /\ standupPhase' = standupPhase
                /\ userTimeouts' = ut
                /\ summaryCount' = summaryCount
                /\ sent' = {Msg("prompt", r.next)}
                            \cup {BlockerAlert(r.next, e) :
                                     e \in GetPendingBlockerQuestionsForUser(r.next)}
                /\ tasks' = rest (+) Spawn(Task("prompt", r.next))
           ELSE /\ sessions' = r.sessions
                /\ CompleteStandup(r.sessions, rest)

\* ---- startDailyStandup ----
StartDailyStandup ==
    /\ standupPhase = StandupPhase.NOT_STARTED
    /\ sessions' = << >>
    /\ userTimeouts' = NoTimeouts
    /\ developerQueue' = << >>
    /\ currentDeveloper' = NoDeveloper
    /\ unavailableDevelopers' = {}
    /\ standupThreadTs' = FALSE
    /\ standupPhase' = StandupPhase.IN_PROGRESS
    /\ sent' = {Msg("header", NoDeveloper)}
    /\ tasks' = tasks (+) Spawn(Task("header", NoDeveloper))
    /\ summaryCount' = 0
    /\ skipCalls' = 0
    /\ pendingBlockerQuestions' = EmptyBag
    /\ UNCHANGED <<orphanTimers, detached, functionVars>>

\* startDailyStandup called again, without pendingBlockerQuestions.clear()
RestartDailyStandupKeepsLedger ==
    /\ standupPhase # StandupPhase.NOT_STARTED
    /\ tasks = EmptyBag
    /\ \A u \in Users : ~Armed(u)
    /\ sessions' = << >>
    /\ userTimeouts' = NoTimeouts
    /\ developerQueue' = << >>
    /\ currentDeveloper' = NoDeveloper
    /\ unavailableDevelopers' = {}
    /\ standupThreadTs' = FALSE
    /\ standupPhase' = StandupPhase.IN_PROGRESS
    /\ sent' = {Msg("header", NoDeveloper)}
    /\ tasks' = tasks (+) Spawn(Task("header", NoDeveloper))
    /\ summaryCount' = 0
    /\ skipCalls' = 0
    /\ pendingBlockerQuestions' = pendingBlockerQuestions
    /\ UNCHANGED <<orphanTimers, detached, functionVars>>

\* startDailyStandup called again (the scheduled job or the 'start standup'
\* command) on a workflow that has run before.  The model takes the call when
\* the earlier run is quiescent: no handler is suspended and no timer is
\* pending, so nothing of the earlier run is left outside the fields that the
\* call resets.
RestartDailyStandup ==
    /\ standupPhase # StandupPhase.NOT_STARTED
    /\ tasks = EmptyBag
    /\ \A u \in Users : ~Armed(u)
    /\ sessions' = << >>
    /\ userTimeouts' = NoTimeouts
    /\ developerQueue' = << >>
    /\ currentDeveloper' = NoDeveloper
    /\ unavailableDevelopers' = {}
    /\ standupThreadTs' = FALSE
    /\ standupPhase' = StandupPhase.IN_PROGRESS
    /\ sent' = {Msg("header", NoDeveloper)}
    /\ tasks' = tasks (+) Spawn(Task("header", NoDeveloper))
    /\ summaryCount' = 0
    /\ skipCalls' = 0
    /\ pendingBlockerQuestions' = EmptyBag
    /\ UNCHANGED <<orphanTimers, detached, functionVars>>

\* sendMessage returned null for the header: startDailyStandup returns false
HeaderFailed(t) ==
    /\ t.pc = "header"
    /\ tasks' = tasks (-) Spawn(t)
    /\ sent' = {}
    /\ UNCHANGED <<standupPhase, standupThreadTs, sessions, developerQueue,
                   currentDeveloper, unavailableDevelopers, userTimeouts,
                   orphanTimers, summaryCount, skipCalls, pendingBlockerQuestions, detached, functionVars>>

HeaderSent(t) ==
    /\ t.pc = "header"
    /\ standupThreadTs' = TRUE
    /\ tasks' = (tasks (-) Spawn(t)) (+) Spawn(Task("members", NoDeveloper))
    /\ sent' = {}
    /\ UNCHANGED <<standupPhase, sessions, developerQueue, currentDeveloper,
                   unavailableDevelopers, userTimeouts, orphanTimers, summaryCount, skipCalls, pendingBlockerQuestions, detached, functionVars>>

\* jiraService.getTeamMembers returned; the loop starts on the first member
MembersFetched(t) ==
    /\ t.pc = "members"
    /\ tasks' = (tasks (-) Spawn(t)) (+) Spawn(Task("build", 1))
    /\ sent' = {}
    /\ UNCHANGED <<standupPhase, standupThreadTs, sessions, developerQueue,
                   currentDeveloper, unavailableDevelopers, userTimeouts,
                   orphanTimers, summaryCount, skipCalls, pendingBlockerQuestions, detached, functionVars>>

\* getUserByEmail and getUserTasks returned for member t.user: its session is
\* created and queued, and the loop goes on to the next member
MemberBuilt(t) ==
    /\ t.pc = "build"
    /\ t.user < NumUsers
    /\ sessions' = (t.user :> NewSession(t.user)) @@ sessions
    /\ developerQueue' = Append(developerQueue, t.user)
    /\ tasks' = (tasks (-) Spawn(t)) (+) Spawn(Task("build", t.user + 1))
    /\ sent' = {}
    /\ UNCHANGED <<standupPhase, standupThreadTs, currentDeveloper,
                   unavailableDevelopers, userTimeouts, orphanTimers, summaryCount, skipCalls, pendingBlockerQuestions, detached, functionVars>>

\* the last member with developerQueue.unshift(session) in place of push
LastMemberBuiltUnshift(t, onLeave) ==
    /\ t.pc = "build"
    /\ t.user = NumUsers
    /\ LET ss == (t.user :> NewSession(t.user)) @@ sessions
           rest == tasks (-) Spawn(t)
       IN  IF onLeave
           THEN /\ sessions' = ss
                /\ developerQueue' = <<t.user>> \o developerQueue
                /\ tasks' = rest (+) Spawn(Task("leave", NoDeveloper))
                /\ sent' = {Msg("leave", NoDeveloper)}
                /\ UNCHANGED <<standupPhase, currentDeveloper, userTimeouts, summaryCount>>
           ELSE AskNextDeveloper(<<t.user>> \o developerQueue, ss,
                                 unavailableDevelopers, userTimeouts, rest)
    /\ UNCHANGED <<standupThreadTs, unavailableDevelopers, orphanTimers, skipCalls, pendingBlockerQuestions, detached, functionVars>>

\* the last member: after it either the leave announcement is posted or the
\* first developer is asked
LastMemberBuilt(t, onLeave) ==
    /\ t.pc = "build"
    /\ t.user = NumUsers
    /\ LET ss == (t.user :> NewSession(t.user)) @@ sessions
           rest == tasks (-) Spawn(t)
       IN  IF onLeave
           THEN /\ sessions' = ss
                /\ developerQueue' = Append(developerQueue, t.user)
                /\ tasks' = rest (+) Spawn(Task("leave", NoDeveloper))
                /\ sent' = {Msg("leave", NoDeveloper)}
                /\ UNCHANGED <<standupPhase, currentDeveloper, userTimeouts, summaryCount>>
           ELSE AskNextDeveloper(Append(developerQueue, t.user), ss,
                                 unavailableDevelopers, userTimeouts, rest)
    /\ UNCHANGED <<standupThreadTs, unavailableDevelopers, orphanTimers, skipCalls, pendingBlockerQuestions, detached, functionVars>>

LeaveAnnounced(t) ==
    /\ t.pc = "leave"
    /\ AskNextDeveloper(developerQueue, sessions, unavailableDevelopers, userTimeouts,
                        tasks (-) Spawn(t))
    /\ UNCHANGED <<standupThreadTs, unavailableDevelopers, orphanTimers, skipCalls, pendingBlockerQuestions, detached, functionVars>>

\* the return from the post without the _setUserTimeout(session) that follows it
PromptSentNoTimeout(t) ==
    /\ t.pc = "prompt"
    /\ userTimeouts' = userTimeouts
    /\ tasks' = tasks (-) Spawn(t)
    /\ sent' = {}
    /\ UNCHANGED <<standupPhase, standupThreadTs, sessions, developerQueue,
                   currentDeveloper, unavailableDevelopers, orphanTimers, summaryCount, skipCalls, pendingBlockerQuestions, detached, functionVars>>

\* the prompt or question for t.user was posted: _setUserTimeout(session)
PromptSent(t) ==
    /\ t.pc = "prompt"
    /\ userTimeouts' = SetUserTimeout(userTimeouts, t.user)
    /\ tasks' = tasks (-) Spawn(t)
    /\ sent' = {}
    /\ UNCHANGED <<standupPhase, standupThreadTs, sessions, developerQueue,
                   currentDeveloper, unavailableDevelopers, orphanTimers, summaryCount, skipCalls, pendingBlockerQuestions, detached, functionVars>>


\* ---- session completion ----
\* _completeDeveloperStandup without line 1207, the _clearUserTimeout
CompleteDeveloperStandupKeepsTimer(u, ss, rest) ==
    /\ sessions' = [ss EXCEPT ![u].state = StandupState.COMPLETED,
                               ![u].completedAt = TRUE]
    /\ userTimeouts' = userTimeouts
    /\ sent' = {Msg("completion", u)}
    /\ tasks' = rest (+) Spawn(Task("closing", u))
    /\ UNCHANGED <<standupPhase, developerQueue, currentDeveloper,
                   unavailableDevelopers, summaryCount>>

\* _completeDeveloperStandup up to the await on the completion message
CompleteDeveloperStandup(u, ss, rest) ==
    /\ sessions' = [ss EXCEPT ![u].state = StandupState.COMPLETED,
                               ![u].completedAt = TRUE]
    /\ userTimeouts' = ClearUserTimeout(userTimeouts, u)
    /\ sent' = {Msg("completion", u)}
    /\ tasks' = rest (+) Spawn(Task("closing", u))
    /\ UNCHANGED <<standupPhase, developerQueue, currentDeveloper,
                   unavailableDevelopers, summaryCount>>

\* _handleUnsatisfactoryCompletion without line 1171, the _clearUserTimeout
HandleUnsatisfactoryCompletionKeepsTimer(u, ss, rest) ==
    /\ sessions' = [ss EXCEPT ![u].state = StandupState.NEEDS_FOLLOWUP]
    /\ userTimeouts' = userTimeouts
    /\ sent' = {Msg("needs_followup", u)}
    /\ tasks' = rest (+) Spawn(Task("closing", u))
    /\ UNCHANGED <<standupPhase, developerQueue, currentDeveloper,
                   unavailableDevelopers, summaryCount>>

\* _handleUnsatisfactoryCompletion up to the await on its message
HandleUnsatisfactoryCompletion(u, ss, rest) ==
    /\ sessions' = [ss EXCEPT ![u].state = StandupState.NEEDS_FOLLOWUP]
    /\ userTimeouts' = ClearUserTimeout(userTimeouts, u)
    /\ sent' = {Msg("needs_followup", u)}
    /\ tasks' = rest (+) Spawn(Task("closing", u))
    /\ UNCHANGED <<standupPhase, developerQueue, currentDeveloper,
                   unavailableDevelopers, summaryCount>>

\* a question (follow-up or to-do prompt) is posted to u; the timeout is set
\* when the post returns (PromptSent)
AskQuestion(kind, u, ss, rest) ==
    /\ sessions' = ss
    /\ sent' = {Msg(kind, u)}
    /\ tasks' = rest (+) Spawn(Task("prompt", u))
    /\ UNCHANGED <<standupPhase, developerQueue, currentDeveloper,
                   unavailableDevelopers, userTimeouts, summaryCount>>

\* _handleInProgressResponse without the limit of lines 1014-1040: an
\* unsatisfactory reply always gets a follow-up question
HandleInProgressResponseNoLimit(u, analysis, ss0, rest) ==
    LET ss == [ss0 EXCEPT ![u].inProgressExchangeCount = @ + 1]
        toTodo == ss[u].todoTasks > 0 /\ ~ss[u].skipTodoItems
    IN  IF IsResponseSatisfactory(analysis, "in_progress")
        THEN IF toTodo
             THEN AskQuestion("todo_prompt", u,
                              [ss EXCEPT ![u].state = StandupState.ASKING_TODO], rest)
             ELSE CompleteDeveloperStandup(u, ss, rest)
        ELSE AskQuestion("followup", u,
                         [ss EXCEPT ![u].state = StandupState.IN_PROGRESS_FOLLOWUP], rest)

HandleInProgressResponse(u, analysis, ss0, rest) ==
    LET ss == [ss0 EXCEPT ![u].inProgressExchangeCount = @ + 1]
        toTodo == ss[u].todoTasks > 0 /\ ~ss[u].skipTodoItems
    IN  IF IsResponseSatisfactory(analysis, "in_progress")
        THEN IF toTodo
             THEN AskQuestion("todo_prompt", u,
                              [ss EXCEPT ![u].state = StandupState.ASKING_TODO], rest)
             ELSE CompleteDeveloperStandup(u, ss, rest)
        ELSE IF ss[u].inProgressExchangeCount >= MAX_IN_PROGRESS_EXCHANGES
        THEN LET ss1 == [ss EXCEPT ![u].inProgressSatisfactory = FALSE,
                                   ![u].unsatisfactoryReasons = @ + 1]
             IN  IF toTodo
                 THEN AskQuestion("todo_prompt", u,
                                  [ss1 EXCEPT ![u].state = StandupState.ASKING_TODO], rest)
                 ELSE HandleUnsatisfactoryCompletion(u, ss1, rest)
        ELSE AskQuestion("followup", u,
                         [ss EXCEPT ![u].state = StandupState.IN_PROGRESS_FOLLOWUP], rest)

HandleTodoResponse(u, analysis, ss0, rest) ==
    LET ss == [ss0 EXCEPT ![u].todoExchangeCount = @ + 1]
    IN  IF IsResponseSatisfactory(analysis, "todo")
        THEN CompleteDeveloperStandup(u, ss, rest)
        ELSE IF ss[u].todoExchangeCount >= MAX_TODO_EXCHANGES
        THEN HandleUnsatisfactoryCompletion(u,
                 [ss EXCEPT ![u].todoSatisfactory = FALSE,
                            ![u].unsatisfactoryReasons = @ + 1], rest)
        ELSE AskQuestion("followup", u,
                         [ss EXCEPT ![u].state = StandupState.TODO_FOLLOWUP], rest)

Min(a, b) == IF a < b THEN a ELSE b

\* the tail of _processUserResponse: the blockers of the analysis are added
\* to the session (the count saturates at MaxBlockers) and the reply is
\* routed on the state the session has now
RouteResponse(u, analysis, message, ss0, rest) ==
    LET named == analysis.blockers > 0 /\ analysis.blocking # NoDeveloper
        ss1 == [ss0 EXCEPT ![u].blockers = Min(@ + analysis.blockers, MaxBlockers),
                           ![u].blockerNotes =
                               IF named
                               THEN @ \cup {[blocking |-> analysis.blocking,
                                             text |-> analysis.blockerText]}
                               ELSE @]
        ledger1 == IF named
                   THEN TrackBlockerForLater(pendingBlockerQuestions, analysis.blocking,
                                             u, analysis.blockerText)
                   ELSE pendingBlockerQuestions
        raw == [blocking |-> message, text |-> "canonical"]
        rawNew == message # NoDeveloper /\ raw \notin ss1[u].blockerNotes
        ss == IF rawNew
              THEN [ss1 EXCEPT ![u].blockers = Min(@ + 1, MaxBlockers),
                               ![u].blockerNotes = @ \cup {raw}]
              ELSE ss1
        st == ss[u].state
    IN  /\ pendingBlockerQuestions' =
               IF rawNew THEN TrackBlockerForLater(ledger1, message, u, "canonical")
               ELSE ledger1
        /\ IF st \in {StandupState.ASKING_IN_PROGRESS, StandupState.IN_PROGRESS_FOLLOWUP}
           THEN HandleInProgressResponse(u, analysis, ss, rest)
           ELSE IF st \in {StandupState.ASKING_TODO, StandupState.TODO_FOLLOWUP}
           THEN HandleTodoResponse(u, analysis, ss, rest)
           ELSE CompleteDeveloperStandup(u, ss, rest)

\* ---- handleUserMessage ----
MsgThreads == {"top", "standup", "other"}
\* threadTs === this.standupThreadTs; a message outside any thread has
\* threadTs null, which equals the standupThreadTs of a run without header
ThreadMatches(th) == IF standupThreadTs THEN th = "standup" ELSE th = "top"

\* handleUserMessage without the thread check of lines 601-604
AcceptedInAnyThread(u, th) ==
    /\ standupPhase = StandupPhase.IN_PROGRESS
    /\ HasSession(u)

Accepted(u, th) ==
    /\ standupPhase = StandupPhase.IN_PROGRESS
    /\ HasSession(u)
    /\ ThreadMatches(th)

\* the early returns of handleUserMessage
MessageIgnored(u, th) ==
    /\ th = "standup" => standupThreadTs
    /\ ~Accepted(u, th)
    /\ sent' = {}
    /\ UNCHANGED <<standupPhase, standupThreadTs, sessions, developerQueue,
                   currentDeveloper, unavailableDevelopers, userTimeouts,
                   orphanTimers, tasks, summaryCount, skipCalls, pendingBlockerQuestions, detached, functionVars>>

\* somebody else than the current developer writes something that
\* _checkIfAbsenceReport does not take for an absence report
Chatter(u, th) ==
    /\ Accepted(u, th)
    /\ currentDeveloper # NoDeveloper /\ currentDeveloper # u
    /\ sent' = IF sessions[u].state = StandupState.COMPLETED THEN {Msg("already", u)}
               ELSE IF sessions[u].state = StandupState.NOT_STARTED THEN {Msg("wait", u)}
               ELSE {}
    /\ UNCHANGED <<standupPhase, standupThreadTs, sessions, developerQueue,
                   currentDeveloper, unavailableDevelopers, userTimeouts,
                   orphanTimers, tasks, summaryCount, skipCalls, pendingBlockerQuestions, detached, functionVars>>

\* _handleAbsenceReport without line 850, the _clearUserTimeout
AbsenceReportKeepsTimer(u, th) ==
    /\ Accepted(u, th)
    /\ currentDeveloper # NoDeveloper /\ currentDeveloper # u
    /\ RoomFor(currentDeveloper)
    /\ LET absent == currentDeveloper
       IN  /\ userTimeouts' = userTimeouts
           /\ sessions' = [sessions EXCEPT ![absent].state = StandupState.SKIPPED]
           /\ unavailableDevelopers' = unavailableDevelopers \cup {absent}
           /\ sent' = {Msg("ack", absent)}
           /\ tasks' = tasks (+) Spawn(Task("closing", absent))
    /\ UNCHANGED <<standupPhase, standupThreadTs, developerQueue, currentDeveloper,
                   orphanTimers, summaryCount, skipCalls, pendingBlockerQuestions, detached, functionVars>>

\* _checkIfAbsenceReport is true: _handleAbsenceReport up to the await on the
\* acknowledgment
AbsenceReport(u, th) ==
    /\ Accepted(u, th)
    /\ currentDeveloper # NoDeveloper /\ currentDeveloper # u
    /\ RoomFor(currentDeveloper)
    /\ LET absent == currentDeveloper
       IN  /\ userTimeouts' = ClearUserTimeout(userTimeouts, absent)
           /\ sessions' = [sessions EXCEPT ![absent].state = StandupState.SKIPPED]
           /\ unavailableDevelopers' = unavailableDevelopers \cup {absent}
           /\ sent' = {Msg("ack", absent)}
           /\ tasks' = tasks (+) Spawn(Task("closing", absent))
    /\ UNCHANGED <<standupPhase, standupThreadTs, developerQueue, currentDeveloper,
                   orphanTimers, summaryCount, skipCalls, pendingBlockerQuestions, detached, functionVars>>

\* handleUserMessage without the phase test of lines 590-592, for a message
\* that goes to _processUserResponse
ProcessUserResponseHAnyPhase(u, th, m, counted) ==
    /\ HasSession(u)
    /\ ThreadMatches(th)
    /\ currentDeveloper = NoDeveloper \/ currentDeveloper = u
    /\ RoomFor(u)
    /\ userTimeouts' = ClearUserTimeout(userTimeouts, u)
    /\ sessions' = [sessions EXCEPT
                       ![u].conversationHistory = Min(@ + 1, MaxReplies),
                       ![u].mentions = IF m = NoDeveloper THEN @ ELSE @ \cup {m},
                       ![u].reminders = IF counted THEN 0 ELSE @]
    /\ IF sessions[u].state = StandupState.COMPLETED
       THEN sent' = {Msg("already", u)} /\ tasks' = tasks
       ELSE IF sessions[u].state \in {StandupState.SKIPPED, StandupState.NEEDS_FOLLOWUP}
       THEN sent' = {} /\ tasks' = tasks
       ELSE sent' = {} /\ tasks' = tasks (+) Spawn(TaskM("analyze", u, m))
    /\ UNCHANGED <<standupPhase, standupThreadTs, developerQueue, currentDeveloper,
                   unavailableDevelopers, orphanTimers, summaryCount, skipCalls,
                   pendingBlockerQuestions, detached, functionVars>>

\* the message goes to _processUserResponse, which records it in the
\* conversation history and runs up to the await on the LLM analysis.  Of the
\* history the model keeps the length, counted up to MaxReplies (the value
\* MaxReplies stands for MaxReplies entries or more), and the team members
\* that the recorded messages name as blocking.  With counted, the count of
\* the reminders posted for u since the last prompt or reply starts again
ProcessUserResponseH(u, th, m, counted) ==
    /\ Accepted(u, th)
    /\ currentDeveloper = NoDeveloper \/ currentDeveloper = u
    /\ RoomFor(u)
    /\ userTimeouts' = ClearUserTimeout(userTimeouts, u)
    /\ sessions' = [sessions EXCEPT
                       ![u].conversationHistory = Min(@ + 1, MaxReplies),
                       ![u].mentions = IF m = NoDeveloper THEN @ ELSE @ \cup {m},
                       ![u].reminders = IF counted THEN 0 ELSE @]
    /\ IF sessions[u].state = StandupState.COMPLETED
       THEN sent' = {Msg("already", u)} /\ tasks' = tasks
       ELSE IF sessions[u].state \in {StandupState.SKIPPED, StandupState.NEEDS_FOLLOWUP}
       THEN sent' = {} /\ tasks' = tasks
       ELSE sent' = {} /\ tasks' = tasks (+) Spawn(TaskM("analyze", u, m))
    /\ UNCHANGED <<standupPhase, standupThreadTs, developerQueue, currentDeveloper,
                   unavailableDevelopers, orphanTimers, summaryCount, skipCalls,
                   pendingBlockerQuestions, detached, functionVars>>

ProcessUserResponse(u, th, m) == ProcessUserResponseH(u, th, m, FALSE)

\* a reply whose text names no team member as blocking
Reply(u, th) == ProcessUserResponse(u, th, NoDeveloper)

\* a reply whose text names the team member b as blocking
ReplyNamingBlocker(u, th, b) ==
    /\ b # u /\ HasSession(b)
    /\ ProcessUserResponse(u, th, b)

\* ---- _processUserResponse after the analysis ----
OffTopic(t, analysis) ==
    /\ t.pc = "analyze"
    /\ analysis.isOffTopic
    /\ tasks' = (tasks (-) Spawn(t)) (+) Spawn(Task("redirect", t.user))
    /\ sent' = {}
    /\ UNCHANGED <<standupPhase, standupThreadTs, sessions, developerQueue,
                   currentDeveloper, unavailableDevelopers, userTimeouts,
                   orphanTimers, summaryCount, skipCalls, pendingBlockerQuestions, detached, functionVars>>

\* the off-topic branch without line 912, the _setUserTimeout
RedirectGeneratedNoTimeout(t) ==
    /\ t.pc = "redirect"
    /\ userTimeouts' = userTimeouts
    /\ tasks' = tasks (-) Spawn(t)
    /\ sent' = {Msg("redirect", t.user)}
    /\ UNCHANGED <<standupPhase, standupThreadTs, sessions, developerQueue,
                   currentDeveloper, unavailableDevelopers, orphanTimers, summaryCount, skipCalls, pendingBlockerQuestions, detached, functionVars>>

\* generateRedirectMessage returned
RedirectGenerated(t) ==
    /\ t.pc = "redirect"
    /\ userTimeouts' = SetUserTimeout(userTimeouts, t.user)
    /\ tasks' = tasks (-) Spawn(t)
    /\ sent' = {Msg("redirect", t.user)}
    /\ UNCHANGED <<standupPhase, standupThreadTs, sessions, developerQueue,
                   currentDeveloper, unavailableDevelopers, orphanTimers, summaryCount, skipCalls, pendingBlockerQuestions, detached, functionVars>>

\* the analysis carries a status change: the update is recorded and the
\* handler waits for JIRA
TicketUpdateStarted(t, analysis) ==
    /\ t.pc = "analyze"
    /\ ~analysis.isOffTopic /\ analysis.newStatus
    /\ sessions[t.user].updates + analysis.taskUpdates <= MaxUpdates
    /\ sessions' = [sessions EXCEPT ![t.user].updates = @ + analysis.taskUpdates]
    /\ tasks' = (tasks (-) Spawn(t)) (+) Spawn(TaskA("jira", t.user, analysis, t.message))
    /\ sent' = {}
    /\ UNCHANGED <<standupPhase, standupThreadTs, developerQueue, currentDeveloper,
                   unavailableDevelopers, userTimeouts, orphanTimers, summaryCount, skipCalls, pendingBlockerQuestions, detached, functionVars>>

TicketUpdated(t) ==
    /\ t.pc = "jira"
    /\ RouteResponse(t.user, t.analysis, t.message, sessions, tasks (-) Spawn(t))
    /\ UNCHANGED <<standupThreadTs, orphanTimers, skipCalls, detached, functionVars>>

\* no status change in the analysis: no await between the analysis and the
\* routing of the reply
Classified(t, analysis) ==
    /\ t.pc = "analyze"
    /\ ~analysis.isOffTopic /\ ~analysis.newStatus
    /\ sessions[t.user].updates + analysis.taskUpdates <= MaxUpdates
    /\ RouteResponse(t.user, analysis, t.message,
                     [sessions EXCEPT ![t.user].updates = @ + analysis.taskUpdates],
                     tasks (-) Spawn(t))
    /\ UNCHANGED <<standupThreadTs, orphanTimers, skipCalls, detached, functionVars>>


\* the completion, needs-follow-up or acknowledgment message was posted:
\* currentDeveloper = null, then the 1 s delay
ClosingSent(t) ==
    /\ t.pc = "closing"
    /\ currentDeveloper' = NoDeveloper
    /\ tasks' = (tasks (-) Spawn(t)) (+) Spawn(Task("delay", t.user))
    /\ sent' = {}
    /\ UNCHANGED <<standupPhase, standupThreadTs, sessions, developerQueue,
                   unavailableDevelopers, userTimeouts, orphanTimers, summaryCount, skipCalls, pendingBlockerQuestions, detached, functionVars>>

\* the delay is over: _askNextDeveloper
DelayElapsed(t) ==
    /\ t.pc = "delay"
    /\ AskNextDeveloper(developerQueue, sessions, unavailableDevelopers, userTimeouts,
                        tasks (-) Spawn(t))
    /\ UNCHANGED <<standupThreadTs, unavailableDevelopers, orphanTimers, skipCalls, pendingBlockerQuestions, detached, functionVars>>

\* ---- timeouts ----
\* a pending timer of kind k for u fires: it is the one recorded in
\* userTimeouts or an orphan
TakeTimer(u, k) ==
    \/ /\ userTimeouts[u] = k
       /\ userTimeouts' = ClearUserTimeout(userTimeouts, u)
       /\ orphanTimers' = orphanTimers
    \/ /\ BagIn(Timer(u, k), orphanTimers)
       /\ orphanTimers' = orphanTimers (-) Spawn(Timer(u, k))
       /\ userTimeouts' = userTimeouts

\* _handleUserInitialTimeout up to the await on the reminder.  With counted,
\* the reminder is added to the count of the reminders posted for u since
\* the last prompt or reply
HandleUserInitialTimeout(u, counted) ==
    /\ TakeTimer(u, "initial")
    /\ IF sessions[u].state \in TerminalStates
       THEN sent' = {} /\ tasks' = tasks /\ sessions' = sessions
       ELSE /\ sent' = {Msg("reminder", u)}
            /\ tasks' = tasks (+) Spawn(Task("reminder", u))
            /\ sessions' = [sessions EXCEPT ![u].reminders =
                                 IF counted THEN Min(@ + 1, MaxReminders) ELSE @]
    /\ UNCHANGED <<standupPhase, standupThreadTs, developerQueue,
                   currentDeveloper, unavailableDevelopers, summaryCount, skipCalls, pendingBlockerQuestions, detached, functionVars>>

InitialTimerFires(u) == HandleUserInitialTimeout(u, FALSE)

\* the reminder was posted: the final timer is set over whatever entry the map
\* holds, without clearing it
ReminderSent(t) ==
    /\ t.pc = "reminder"
    /\ orphanTimers' = IF userTimeouts[t.user] # "none"
                       THEN orphanTimers (+) Spawn(Timer(t.user, userTimeouts[t.user]))
                       ELSE orphanTimers
    /\ userTimeouts' = [userTimeouts EXCEPT ![t.user] = "final"]
    /\ tasks' = tasks (-) Spawn(t)
    /\ sent' = {}
    /\ UNCHANGED <<standupPhase, standupThreadTs, sessions, developerQueue,
                   currentDeveloper, unavailableDevelopers, summaryCount, skipCalls, pendingBlockerQuestions, detached, functionVars>>

\* _handleUserFinalTimeout without line 556, the add to unavailableDevelopers
FinalTimerFiresKeepsAvailable(u) ==
    /\ TakeTimer(u, "final")
    /\ IF sessions[u].state \in TerminalStates
       THEN /\ sent' = {} /\ tasks' = tasks
            /\ UNCHANGED <<sessions, unavailableDevelopers>>
       ELSE /\ sessions' = [sessions EXCEPT ![u].state = StandupState.SKIPPED]
            /\ unavailableDevelopers' = unavailableDevelopers
            /\ sent' = {Msg("timeout", u)}
            /\ tasks' = tasks (+) Spawn(Task("timeoutMsg", u))
    /\ UNCHANGED <<standupPhase, standupThreadTs, developerQueue, currentDeveloper,
                   summaryCount, skipCalls, pendingBlockerQuestions, detached, functionVars>>

\* _handleUserFinalTimeout up to the await on the timeout message
FinalTimerFires(u) ==
    /\ TakeTimer(u, "final")
    /\ IF sessions[u].state \in TerminalStates
       THEN /\ sent' = {} /\ tasks' = tasks
            /\ UNCHANGED <<sessions, unavailableDevelopers>>
       ELSE /\ sessions' = [sessions EXCEPT ![u].state = StandupState.SKIPPED]
            /\ unavailableDevelopers' = unavailableDevelopers \cup {u}
            /\ sent' = {Msg("timeout", u)}
            /\ tasks' = tasks (+) Spawn(Task("timeoutMsg", u))
    /\ UNCHANGED <<standupPhase, standupThreadTs, developerQueue, currentDeveloper,
                   summaryCount, skipCalls, pendingBlockerQuestions, detached, functionVars>>

\* the timeout message was posted: _askNextDeveloper
TimeoutMsgSent(t) ==
    /\ t.pc = "timeoutMsg"
    /\ AskNextDeveloper(developerQueue, sessions, unavailableDevelopers, userTimeouts,
                        tasks (-) Spawn(t))
    /\ UNCHANGED <<standupThreadTs, unavailableDevelopers, orphanTimers, skipCalls, pendingBlockerQuestions, detached, functionVars>>

\* ---- startDailyStandup while a run is in progress ----
\* startDailyStandup empties userTimeouts without clearTimeout: the timers of
\* the run it replaces stay pending, and their callbacks hold the session
\* objects of that run, which are no longer in the sessions map.  Such a
\* timer is kept in orphanTimers with a kind of its own; detached is the set
\* of the participants whose replaced session object is not in a terminal
\* state.
StaleTimerKinds == {"stale_initial", "stale_final"}
Stale(k) == IF k = "initial" THEN "stale_initial" ELSE "stale_final"
StalePending ==
    \/ \E u \in Users : userTimeouts[u] \in StaleTimerKinds
    \/ \E u \in Users, k \in StaleTimerKinds : BagIn(Timer(u, k), orphanTimers)

\* the pending timers of the run, all of them outside the map
DetachedTimers ==
    LET count(u, k) == (IF userTimeouts[u] = k THEN 1 ELSE 0)
                       + CopiesIn(Timer(u, k), orphanTimers)
        pending == {uk \in Users \X TimerKinds : count(uk[1], uk[2]) > 0}
    IN  [tm \in {Timer(uk[1], Stale(uk[2])) : uk \in pending} |->
            LET k == IF tm.kind = "stale_initial" THEN "initial" ELSE "final"
            IN  count(tm.user, k)]

\* startDailyStandup called while the run is in progress.  The model takes
\* the call when no handler is suspended and the timers left by an earlier
\* call have all fired.
SecondStartDailyStandup ==
    /\ standupPhase = StandupPhase.IN_PROGRESS
    /\ tasks = EmptyBag
    /\ ~StalePending
    /\ sessions' = << >>
    /\ userTimeouts' = NoTimeouts
    /\ orphanTimers' = DetachedTimers
    /\ detached' = {u \in DOMAIN sessions :
                       /\ sessions[u].state \notin TerminalStates
                       /\ Armed(u)}
    /\ developerQueue' = << >>
    /\ currentDeveloper' = NoDeveloper
    /\ unavailableDevelopers' = {}
    /\ standupThreadTs' = FALSE
    /\ standupPhase' = StandupPhase.IN_PROGRESS
    /\ sent' = {Msg("header", NoDeveloper)}
    /\ tasks' = tasks (+) Spawn(Task("header", NoDeveloper))
    /\ summaryCount' = 0
    /\ skipCalls' = 0
    /\ pendingBlockerQuestions' = EmptyBag
    /\ UNCHANGED functionVars

\* _handleUserInitialTimeout of a timer of the replaced run: the state it
\* tests is that of the replaced session object
StaleInitialTimerFires(u) ==
    /\ BagIn(Timer(u, "stale_initial"), orphanTimers)
    /\ orphanTimers' = orphanTimers (-) Spawn(Timer(u, "stale_initial"))
    /\ IF u \in detached
       THEN sent' = {Msg("reminder", u)} /\ tasks' = tasks (+) Spawn(Task("staleReminder", u))
       ELSE sent' = {} /\ tasks' = tasks
    /\ UNCHANGED <<standupPhase, standupThreadTs, sessions, developerQueue,
                   currentDeveloper, unavailableDevelopers, userTimeouts, summaryCount,
                   skipCalls, pendingBlockerQuestions, detached, functionVars>>

\* the reminder was posted: the final timer for the replaced session object
\* is set in userTimeouts over whatever entry the map holds
StaleReminderSent(t) ==
    /\ t.pc = "staleReminder"
    /\ orphanTimers' = IF userTimeouts[t.user] # "none"
                       THEN orphanTimers (+) Spawn(Timer(t.user, userTimeouts[t.user]))
                       ELSE orphanTimers
    /\ userTimeouts' = [userTimeouts EXCEPT ![t.user] = "stale_final"]
    /\ tasks' = tasks (-) Spawn(t)
    /\ sent' = {}
    /\ UNCHANGED <<standupPhase, standupThreadTs, sessions, developerQueue,
                   currentDeveloper, unavailableDevelopers, summaryCount, skipCalls,
                   pendingBlockerQuestions, detached, functionVars>>

\* _handleUserFinalTimeout of a timer of the replaced run: the replaced
\* session object is marked SKIPPED, the id is added to the
\* unavailableDevelopers of the run in progress and, after the timeout
\* message, _askNextDeveloper advances that run (TimeoutMsgSent)
StaleFinalTimerFires(u) ==
    /\ TakeTimer(u, "stale_final")
    /\ IF u \in detached
       THEN /\ detached' = detached \ {u}
            /\ unavailableDevelopers' = unavailableDevelopers \cup {u}
            /\ sent' = {Msg("timeout", u)}
            /\ tasks' = tasks (+) Spawn(Task("timeoutMsg", u))
       ELSE /\ sent' = {} /\ tasks' = tasks
            /\ UNCHANGED <<detached, unavailableDevelopers>>
    /\ UNCHANGED <<standupPhase, standupThreadTs, sessions, developerQueue,
                   currentDeveloper, summaryCount, skipCalls, pendingBlockerQuestions,
                   functionVars>>

\* ---- skipUserStandup ----
SkipUserStandup(u) ==
    /\ skipCalls < MaxSkipCalls
    /\ skipCalls' = skipCalls + 1
    /\ HasSession(u)
    /\ sessions' = [sessions EXCEPT ![u].state = StandupState.SKIPPED]
    /\ unavailableDevelopers' = unavailableDevelopers \cup {u}
    /\ sent' = {}
    /\ UNCHANGED <<standupPhase, standupThreadTs, developerQueue, currentDeveloper,
                   userTimeouts, orphanTimers, tasks, summaryCount,
                   pendingBlockerQuestions, detached, functionVars>>

\* ---- _sendStandupSummary ----
\* generateStandupSummary returned: the summary is posted
SummaryGenerated(t) ==
    /\ t.pc = "summaryLLM"
    /\ tasks' = (tasks (-) Spawn(t)) (+) Spawn(Task("summarySend", NoDeveloper))
    /\ sent' = {Msg("summary", NoDeveloper)}
    /\ summaryCount' = summaryCount + 1
    /\ UNCHANGED <<standupPhase, standupThreadTs, sessions, developerQueue,
                   currentDeveloper, unavailableDevelopers, userTimeouts, orphanTimers, skipCalls, pendingBlockerQuestions, detached, functionVars>>

SummarySent(t) ==
    /\ t.pc = "summarySend"
    /\ tasks' = tasks (-) Spawn(t)
    /\ sent' = {}
    /\ UNCHANGED <<standupPhase, standupThreadTs, sessions, developerQueue,
                   currentDeveloper, unavailableDevelopers, userTimeouts,
                   orphanTimers, summaryCount, skipCalls, pendingBlockerQuestions, detached, functionVars>>

\* ---- the workflow ----
Next ==
    \/ StartDailyStandup
    \/ \E t \in Running : HeaderFailed(t)
    \/ \E t \in Running : HeaderSent(t)
    \/ \E t \in Running : MembersFetched(t)
    \/ \E t \in Running : MemberBuilt(t)
    \/ \E t \in Running, onLeave \in BOOLEAN : LastMemberBuilt(t, onLeave)
    \/ \E t \in Running : LeaveAnnounced(t)
    \/ \E t \in Running : PromptSent(t)
    \/ \E u \in Senders, th \in MsgThreads : MessageIgnored(u, th)
    \/ \E u \in Senders, th \in MsgThreads : Chatter(u, th)
    \/ \E u \in Senders, th \in MsgThreads : AbsenceReport(u, th)
    \/ \E u \in Senders, th \in MsgThreads : Reply(u, th)
    \/ \E t \in Running, a \in Analyses : OffTopic(t, a)
    \/ \E t \in Running : RedirectGenerated(t)
    \/ \E t \in Running, a \in Analyses : TicketUpdateStarted(t, a)
    \/ \E t \in Running : TicketUpdated(t)
    \/ \E t \in Running, a \in Analyses : Classified(t, a)
    \/ \E t \in Running : ClosingSent(t)
    \/ \E t \in Running : DelayElapsed(t)
    \/ \E u \in Users : InitialTimerFires(u)
    \/ \E t \in Running : ReminderSent(t)
    \/ \E u \in Users : FinalTimerFires(u)
    \/ \E t \in Running : TimeoutMsgSent(t)
    \/ \E t \in Running : SummaryGenerated(t)
    \/ \E t \in Running : SummarySent(t)

Spec == Init /\ [][Next]_vars

\* ---- the workflow with calls of skipUserStandup ----
\* nothing in the repository calls skipUserStandup; the runs in which somebody
\* does are a specification of their own
NextS == Next \/ \E u \in Users : SkipUserStandup(u)

SpecS == Init /\ [][NextS]_vars

\* ---- the workflow with replies that name a team member as blocking ----
\* the analyses of such replies: a clear summary with one blocker that names
\* the team member b, described in the words of the reply or as
\* `Blocked on <full name>`
BlockerAnalyses(u) ==
    {[An(FALSE, 0, FALSE, FALSE, 1, FALSE, TRUE) EXCEPT !.blocking = b, !.blockerText = d] :
        b \in DOMAIN sessions \ {u}, d \in BlockerTexts}

\* the analyses drawn in these runs: the fallback, a clear summary, and the
\* clear summaries with a blocker that names a team member
LedgerAnalyses(u) ==
    {FallbackAnalysis, An(FALSE, 0, FALSE, FALSE, 0, FALSE, TRUE)} \cup BlockerAnalyses(u)

\* the runs in which the replies may name a blocking team member and
\* startDailyStandup may be called again when the run is over.  In these
\* runs the header is posted, nobody is on leave, the messages come from the
\* members of the team and the replies are on-topic and carry no ticket
\* update.
NextL ==
    \/ StartDailyStandup
    \/ RestartDailyStandup
    \/ \E t \in Running : HeaderSent(t)
    \/ \E t \in Running : MembersFetched(t)
    \/ \E t \in Running : MemberBuilt(t)
    \/ \E t \in Running : LastMemberBuilt(t, FALSE)
    \/ \E t \in Running : PromptSent(t)
    \/ \E u \in Users, th \in MsgThreads : MessageIgnored(u, th)
    \/ \E u \in Users, th \in MsgThreads : Chatter(u, th)
    \/ \E u \in Users, th \in MsgThreads : AbsenceReport(u, th)
    \/ \E u \in Users, th \in MsgThreads : Reply(u, th)
    \/ \E u \in Users, th \in MsgThreads, b \in Users : ReplyNamingBlocker(u, th, b)
    \/ \E t \in Running : \E a \in LedgerAnalyses(t.user) : Classified(t, a)
    \/ \E t \in Running : ClosingSent(t)
    \/ \E t \in Running : DelayElapsed(t)
    \/ \E u \in Users : InitialTimerFires(u)
    \/ \E t \in Running : ReminderSent(t)
    \/ \E u \in Users : FinalTimerFires(u)
    \/ \E t \in Running : TimeoutMsgSent(t)
    \/ \E t \in Running : SummaryGenerated(t)
    \/ \E t \in Running : SummarySent(t)

SpecL == Init /\ [][NextL]_vars

\* ---- the workflow with the reminders counted ----
\* the timeout and reply handlers that keep, in the field reminders of the
\* session, the number of reminders posted since the last prompt or reply
\* (counted up to MaxReminders; _askNextDeveloper starts it at 0 with the
\* prompt).  No code reads the field.
InitialTimerFiresCounted(u) == HandleUserInitialTimeout(u, TRUE)
ReplyCounted(u, th) == ProcessUserResponseH(u, th, NoDeveloper, TRUE)

\* the analyses drawn in these runs: the fallback, a clear summary and an
\* off-topic reply
TimeoutAnalyses ==
    {FallbackAnalysis, An(FALSE, 0, FALSE, FALSE, 0, FALSE, TRUE),
     An(TRUE, 0, FALSE, FALSE, 0, FALSE, FALSE)}

\* the runs in which the header is posted, nobody is on leave, the messages
\* come from the members of the team and the replies carry no ticket update
\* and no blocker
NextT ==
    \/ StartDailyStandup
    \/ \E t \in Running : HeaderSent(t)
    \/ \E t \in Running : MembersFetched(t)
    \/ \E t \in Running : MemberBuilt(t)
    \/ \E t \in Running : LastMemberBuilt(t, FALSE)
    \/ \E t \in Running : PromptSent(t)
    \/ \E u \in Users, th \in MsgThreads : MessageIgnored(u, th)
    \/ \E u \in Users, th \in MsgThreads : Chatter(u, th)
    \/ \E u \in Users, th \in MsgThreads : AbsenceReport(u, th)
    \/ \E u \in Users, th \in MsgThreads : ReplyCounted(u, th)
    \/ \E t \in Running : \E a \in TimeoutAnalyses : OffTopic(t, a)
    \/ \E t \in Running : RedirectGenerated(t)
    \/ \E t \in Running : \E a \in TimeoutAnalyses : Classified(t, a)
    \/ \E t \in Running : ClosingSent(t)
    \/ \E t \in Running : DelayElapsed(t)
    \/ \E u \in Users : InitialTimerFiresCounted(u)
    \/ \E t \in Running : ReminderSent(t)
    \/ \E u \in Users : FinalTimerFires(u)
    \/ \E t \in Running : TimeoutMsgSent(t)
    \/ \E t \in Running : SummaryGenerated(t)
    \/ \E t \in Running : SummarySent(t)

SpecT == Init /\ [][NextT]_vars

\* ---- the workflow with a second start during the run ----
\* the analyses drawn in these runs: the fallback and a clear summary
PlainAnalyses == {FallbackAnalysis, An(FALSE, 0, FALSE, FALSE, 0, FALSE, TRUE)}

\* the runs in which startDailyStandup may be called again while the run is
\* in progress.  In these runs the header is posted, nobody is on leave, the
\* messages come from the members of the team in the thread of the run and
\* the replies are on-topic and carry no ticket update and no blocker.
NextC ==
    \/ StartDailyStandup
    \/ SecondStartDailyStandup
    \/ \E t \in Running : HeaderSent(t)
    \/ \E t \in Running : MembersFetched(t)
    \/ \E t \in Running : MemberBuilt(t)
    \/ \E t \in Running : LastMemberBuilt(t, FALSE)
    \/ \E t \in Running : PromptSent(t)
    \/ \E u \in Users : Chatter(u, "standup")
    \/ \E u \in Users : Reply(u, "standup")
    \/ \E t \in Running : \E a \in PlainAnalyses : Classified(t, a)
    \/ \E t \in Running : ClosingSent(t)
    \/ \E t \in Running : DelayElapsed(t)
    \/ \E u \in Users : InitialTimerFires(u)
    \/ \E t \in Running : ReminderSent(t)
    \/ \E u \in Users : FinalTimerFires(u)
    \/ \E u \in Users : StaleInitialTimerFires(u)
    \/ \E t \in Running : StaleReminderSent(t)
    \/ \E u \in Users : StaleFinalTimerFires(u)
    \/ \E t \in Running : TimeoutMsgSent(t)
    \/ \E t \in Running : SummaryGenerated(t)
    \/ \E t \in Running : SummarySent(t)

SpecC == Init /\ [][NextC]_vars

\* ---- the workflow with repeated runs ----
NextR == Next \/ RestartDailyStandup

SpecR == Init /\ [][NextR]_vars

\* ---- the workflow under fair scheduling ----
\* what the environment decides: a start of the run, an inbound message, a
\* call of skipUserStandup
InputStep ==
    \/ StartDailyStandup
    \/ \E u \in Senders, th \in MsgThreads :
          MessageIgnored(u, th) \/ Chatter(u, th) \/ AbsenceReport(u, th) \/ Reply(u, th)
    \/ \E u \in Users : SkipUserStandup(u)

\* an external call (Slack, LLM, JIRA, the delay) returns to its handler
HandlerStep ==
    \E t \in Running :
        \/ HeaderFailed(t) \/ HeaderSent(t) \/ MembersFetched(t) \/ MemberBuilt(t)
        \/ \E onLeave \in BOOLEAN : LastMemberBuilt(t, onLeave)
        \/ LeaveAnnounced(t) \/ PromptSent(t) \/ RedirectGenerated(t) \/ TicketUpdated(t)
        \/ \E a \in Analyses : OffTopic(t, a) \/ TicketUpdateStarted(t, a) \/ Classified(t, a)
        \/ ClosingSent(t) \/ DelayElapsed(t) \/ ReminderSent(t) \/ TimeoutMsgSent(t)
        \/ SummaryGenerated(t) \/ SummarySent(t)

\* a pending timer fires
TimerStep == \E u \in Users : InitialTimerFires(u) \/ FinalTimerFires(u)

\* every external call eventually returns and every armed timer eventually fires
FairSpec == Spec /\ WF_vars(HandlerStep) /\ WF_vars(TimerStep)

TypeOK ==
    /\ standupPhase \in {StandupPhase.NOT_STARTED, StandupPhase.IN_PROGRESS,
                         StandupPhase.COMPLETED}
    /\ standupThreadTs \in BOOLEAN
    /\ DOMAIN sessions \subseteq Users
    /\ currentDeveloper \in Users \cup {NoDeveloper}
    /\ unavailableDevelopers \subseteq Users
    /\ \A u \in Users : userTimeouts[u] \in TimerKinds \cup StaleTimerKinds \cup {"none"}
    /\ detached \subseteq Users
    /\ summaryCount \in Nat
    /\ IsABag(pendingBlockerQuestions)
    /\ \A e \in BagToSet(pendingBlockerQuestions) :
          e.owner \in Users /\ e.blockedUser \in Users /\ e.text \in BlockerTexts


\* ---- properties of the workflow ----
ActiveSessions == {u \in DOMAIN sessions : sessions[u].state \in AskingStates}
PendingSessions == {u \in DOMAIN sessions : sessions[u].state \notin TerminalStates}

\* the first session of the queue that is not marked unavailable, if any
AvailableInQueue == {i \in 1 .. Len(developerQueue) :
                        developerQueue[i] \notin unavailableDevelopers}
FirstAvailable == developerQueue[CHOOSE i \in AvailableInQueue :
                                    \A j \in AvailableInQueue : i <= j]

\* C1: in every reachable state at most one session is in an asking or
\* follow-up state (ASKING_IN_PROGRESS, IN_PROGRESS_FOLLOWUP, ASKING_TODO,
\* TODO_FOLLOWUP).
C1_SingleActiveSession == Cardinality(ActiveSessions) <= 1

\* C2: when handleUserMessage accepts a reply from the active participant,
\* every timer armed for that participant before the reply is cancelled: right
\* after the reply is taken no timer of that participant is pending.
C2_ReplyCancelsTimers ==
    [][\A u \in Users, th \in MsgThreads :
          (Reply(u, th) /\ currentDeveloper = u) => ~Armed(u)']_vars

\* a reminder or a timeout message for u is posted by the step
PostsTimeoutMessage(u) == Msg("reminder", u) \in sent' \/ Msg("timeout", u) \in sent'

\* a timer that fires for a terminal session changes no state and sends nothing
FiresInert(u) ==
    ((InitialTimerFires(u) \/ FinalTimerFires(u)) /\ IsTerminal(u))
       => /\ sent' = {}
          /\ UNCHANGED <<standupPhase, sessions, developerQueue, currentDeveloper,
                         unavailableDevelopers, tasks, summaryCount>>

\* C3: no reminder and no timeout message is posted for a session after the
\* session has reached COMPLETED, SKIPPED or NEEDS_FOLLOWUP (a session that is
\* terminal now, or whose completedAt records that it was COMPLETED), and a
\* timer that fires for a terminal session changes no state and sends nothing.
C3_NoTimeoutMessageAfterTerminal ==
    [][\A u \in DOMAIN sessions :
          /\ (IsTerminal(u) \/ sessions[u].completedAt) => ~PostsTimeoutMessage(u)
          /\ FiresInert(u)]_vars

\* C3, the part that holds: the guards of the two timeout handlers make a
\* firing on a session that is terminal at that moment a no-op.
C3_FiringOnTerminalIsInert == [][\A u \in DOMAIN sessions : FiresInert(u)]_vars

\* C4: when the run activates the next session after a session was closed
\* (completed, needs follow-up, skipped by timeout or by an absence report),
\* no timer of the closed session is still armed.
C4_NoTimerLeftAtAdvance ==
    [][\A t \in Running :
          ((DelayElapsed(t) \/ TimeoutMsgSent(t)) /\ currentDeveloper' # NoDeveloper)
             => ~Armed(t.user)]_vars

\* C5: once the state of a session is COMPLETED, SKIPPED or NEEDS_FOLLOWUP it
\* never changes again.
C5_TerminalAbsorbing ==
    [][\A u \in DOMAIN sessions :
          sessions[u].state \in TerminalStates
             => (u \in DOMAIN sessions' /\ sessions'[u].state = sessions[u].state)]_vars

\* C6: a message from a participant whose session is not the active one never
\* changes a session (state, exchange counts, updates, blockers) and never
\* advances the queue, unless it is an absence report about the active
\* participant.  The steps of such a message are its arrival (Chatter, or
\* Reply while nobody is active) and the steps of its handler while the
\* sender's session has still not been started.
FromNonActive(u) ==
    \/ \E th \in MsgThreads : Chatter(u, th)
    \/ \E th \in MsgThreads : Reply(u, th) /\ currentDeveloper # u
    \/ \E t \in Running :
          /\ t.user = u
          /\ HasSession(u)
          /\ sessions[u].state = StandupState.NOT_STARTED
          /\ \/ TicketUpdated(t)
             \/ \E a \in Analyses : Classified(t, a) \/ TicketUpdateStarted(t, a)
C6_NonActiveMessageInert ==
    [][\A u \in Users :
          FromNonActive(u) => UNCHANGED <<sessions, developerQueue, currentDeveloper>>]_vars

\* C7: when the final timeout fires for a session that is not terminal, the
\* session becomes SKIPPED whatever its state and exchange count, its id is
\* added to the unavailable set, and when the timeout message has been posted
\* the run advances: the first available session of the queue becomes the
\* current developer and is asked, or, if there is none, the run is COMPLETED.
C7_FinalTimeoutSkipsAndAdvances ==
    [][/\ \A u \in Users :
             (FinalTimerFires(u) /\ ~IsTerminal(u))
                => /\ sessions'[u].state = StandupState.SKIPPED
                   /\ u \in unavailableDevelopers'
                   /\ BagIn(Task("timeoutMsg", u), tasks')
       /\ \A t \in Running :
             TimeoutMsgSent(t)
                => IF AvailableInQueue # {}
                   THEN /\ currentDeveloper' = FirstAvailable
                        /\ sessions'[FirstAvailable].state = StandupState.ASKING_IN_PROGRESS
                        /\ sent' = {Msg("prompt", FirstAvailable)}
                   ELSE /\ standupPhase' = StandupPhase.COMPLETED
                        /\ currentDeveloper' = NoDeveloper
                        /\ developerQueue' = << >>]_vars

\* the final timeout has just skipped a session that was in a follow-up
C7_Witness ==
    \E u \in Users :
        /\ Msg("timeout", u) \in sent
        /\ sessions[u].state = StandupState.SKIPPED
        /\ sessions[u].inProgressExchangeCount > 0
        /\ u \in unavailableDevelopers

C9_CompletedRunHasOnlyTerminalSessions ==
    standupPhase = StandupPhase.COMPLETED => PendingSessions = {}

\* C10: within one run the run summary is posted at most once.
C10_SummaryPostedOnce == summaryCount <= 1


\* the inputs stop: from some point on no run is started, no message arrives
\* and skipUserStandup is not called
InputsStop == <>[][~InputStep]_vars

\* C11: if armed timers eventually fire, every external call eventually
\* returns and only finitely many messages arrive, then a run whose header
\* was posted eventually has phase COMPLETED and every session that was
\* created eventually is COMPLETED, SKIPPED or NEEDS_FOLLOWUP.
C11_RunTerminates ==
    InputsStop =>
        /\ standupThreadTs ~> (standupPhase = StandupPhase.COMPLETED)
        /\ \A u \in Users : HasSession(u) ~> IsTerminal(u)

\* a handler step that calls _askNextDeveloper
CallsAskNextDeveloper(t) == DelayElapsed(t) \/ TimeoutMsgSent(t) \/ LeaveAnnounced(t)

\* C12: _askNextDeveloper called while the active session is set and not
\* terminal is a no-op: it shifts nothing from the queue, leaves the active
\* session and every session state as they are, and posts no prompt.
C12_AdvanceIdempotentWhileActive ==
    [][\A t \in Running :
          (/\ CallsAskNextDeveloper(t)
           /\ currentDeveloper # NoDeveloper
           /\ ~IsTerminal(currentDeveloper))
             => /\ UNCHANGED <<developerQueue, currentDeveloper, sessions, standupPhase>>
                /\ \A u \in Users : Msg("prompt", u) \notin sent']_vars

\* C13: the run phase only moves forward, whatever sequence of
\* startDailyStandup calls, messages and timer firings the workflow sees: it
\* never leaves COMPLETED and never returns to NOT_STARTED.
C13_PhaseMonotonic ==
    [][/\ standupPhase = StandupPhase.COMPLETED => standupPhase' = StandupPhase.COMPLETED
       /\ standupPhase # StandupPhase.NOT_STARTED
             => standupPhase' # StandupPhase.NOT_STARTED]_vars

\* C14: in every reachable state currentDeveloper is set if and only if the
\* run phase is IN_PROGRESS and some session has left NOT_STARTED without
\* having reached a terminal state, and when it is set it is such a session.
C14_CurrentDeveloperIffActive ==
    /\ currentDeveloper # NoDeveloper
          <=> (standupPhase = StandupPhase.IN_PROGRESS /\ ActiveSessions # {})
    /\ currentDeveloper # NoDeveloper => currentDeveloper \in ActiveSessions

InProgressStates == {StandupState.ASKING_IN_PROGRESS, StandupState.IN_PROGRESS_FOLLOWUP}

\* a handler of a reply of u is still suspended
Processing(u) == \E t \in Running : t.user = u /\ t.pc \in {"analyze", "redirect", "jira"}

\* C16: the in-progress phase ends within three replies whatever their
\* classification: once three replies of a participant have been recorded
\* and processed, the session is not in ASKING_IN_PROGRESS or
\* IN_PROGRESS_FOLLOWUP.
C16_PhaseEndsWithinThreeReplies ==
    \A u \in DOMAIN sessions :
        (sessions[u].conversationHistory >= MAX_IN_PROGRESS_EXCHANGES /\ ~Processing(u))
           => sessions[u].state \notin InProgressStates

\* the handler t routes a reply of t.user that is on-topic and not
\* satisfactory, with analysis a, while the session is in the in-progress phase
UnsatisfactoryInProgress(t, a) ==
    /\ HasSession(t.user)
    /\ sessions[t.user].state \in InProgressStates
    /\ ~a.isOffTopic
    /\ ~IsResponseSatisfactory(a, "in_progress")
    /\ \/ Classified(t, a)
       \/ t.analysis = a /\ TicketUpdated(t)

\* C17: an on-topic unsatisfactory reply in the in-progress phase is counted;
\* the 1st and the 2nd get a follow-up, the 3rd makes the session
\* NEEDS_FOLLOWUP with a reason recorded and its timer cleared, and no session
\* is NEEDS_FOLLOWUP with fewer than 3 counted replies.  The handler of that
\* 3rd reply itself (message, delay, _askNextDeveloper) then activates the
\* first available session of the queue or completes the run: no timer has
\* to fire.
C17_ThirdUnsatisfactoryReplyNeedsFollowup ==
    [][/\ \A t \in Running, a \in Analyses :
             UnsatisfactoryInProgress(t, a)
                => LET u == t.user
                       n == sessions[u].inProgressExchangeCount + 1
                   IN  /\ sessions'[u].inProgressExchangeCount = n
                       /\ IF n < MAX_IN_PROGRESS_EXCHANGES
                          THEN /\ sessions'[u].state = StandupState.IN_PROGRESS_FOLLOWUP
                               /\ sessions'[u].unsatisfactoryReasons = sessions[u].unsatisfactoryReasons
                          ELSE /\ n = MAX_IN_PROGRESS_EXCHANGES
                               /\ sessions'[u].state = StandupState.NEEDS_FOLLOWUP
                               /\ sessions'[u].unsatisfactoryReasons = sessions[u].unsatisfactoryReasons + 1
                               /\ ~sessions'[u].inProgressSatisfactory
                               /\ userTimeouts'[u] = "none"
                               /\ sent' = {Msg("needs_followup", u)}
                               /\ BagIn(Task("closing", u), tasks')
       /\ \A u \in DOMAIN sessions' :
             sessions'[u].state = StandupState.NEEDS_FOLLOWUP
                => /\ sessions'[u].inProgressExchangeCount = MAX_IN_PROGRESS_EXCHANGES
                   /\ sessions'[u].unsatisfactoryReasons > 0
       /\ \A t \in Running :
             (ClosingSent(t) /\ HasSession(t.user)
                /\ sessions[t.user].state = StandupState.NEEDS_FOLLOWUP)
                => BagIn(Task("delay", t.user), tasks')
       /\ \A t \in Running :
             (DelayElapsed(t) /\ HasSession(t.user)
                /\ sessions[t.user].state = StandupState.NEEDS_FOLLOWUP)
                => IF AvailableInQueue # {}
                   THEN /\ currentDeveloper' = FirstAvailable
                        /\ sessions'[FirstAvailable].state = StandupState.ASKING_IN_PROGRESS
                        /\ sent' = {Msg("prompt", FirstAvailable)}
                   ELSE standupPhase' = StandupPhase.COMPLETED]_vars

\* three replies of u, counted and unsatisfactory, have closed the session
\* and its handler has asked the next participant
C17_Witness ==
    \E u, v \in Users :
        /\ HasSession(u)
        /\ sessions[u].state = StandupState.NEEDS_FOLLOWUP
        /\ sessions[u].conversationHistory = MAX_IN_PROGRESS_EXCHANGES
        /\ sessions[u].inProgressExchangeCount = MAX_IN_PROGRESS_EXCHANGES
        /\ sessions[u].unsatisfactoryReasons = 1
        /\ userTimeouts = NoTimeouts /\ orphanTimers = EmptyBag
        /\ currentDeveloper = v /\ v # u
        /\ sent = {Msg("prompt", v)}

\* C18: an on-topic unsatisfactory reply routed in ASKING_IN_PROGRESS or
\* IN_PROGRESS_FOLLOWUP whose count, the reply included, is below 3 moves the
\* session to IN_PROGRESS_FOLLOWUP and posts one follow-up question and
\* nothing else; when the post returns the initial timeout of the participant
\* is armed.  Neither step changes the current developer or the queue.
C18_FollowupWithinLimit ==
    [][/\ \A t \in Running, a \in Analyses :
             (/\ UnsatisfactoryInProgress(t, a)
              /\ sessions[t.user].inProgressExchangeCount + 1 < MAX_IN_PROGRESS_EXCHANGES)
                => /\ sessions'[t.user].state = StandupState.IN_PROGRESS_FOLLOWUP
                   /\ sent' = {Msg("followup", t.user)}
                   /\ tasks' = (tasks (-) Spawn(t)) (+) Spawn(Task("prompt", t.user))
                   /\ UNCHANGED <<currentDeveloper, developerQueue, standupPhase>>
                   /\ \A v \in DOMAIN sessions : v # t.user => sessions'[v] = sessions[v]
       /\ \A t \in Running :
             PromptSent(t)
                => /\ userTimeouts'[t.user] = "initial"
                   /\ UNCHANGED <<currentDeveloper, developerQueue, sessions>>]_vars

\* the second unsatisfactory reply of the current developer got its follow-up
\* and the timeout is armed again
C18_Witness ==
    \E u \in Users :
        /\ HasSession(u)
        /\ currentDeveloper = u
        /\ sessions[u].state = StandupState.IN_PROGRESS_FOLLOWUP
        /\ sessions[u].inProgressExchangeCount = 2
        /\ sessions[u].conversationHistory = 2
        /\ userTimeouts[u] = "initial"
        /\ tasks = EmptyBag

\* the handler t routes a reply of t.user that is on-topic and satisfactory,
\* with analysis a, while the session is in the in-progress phase
SatisfactoryInProgress(t, a) ==
    /\ HasSession(t.user)
    /\ sessions[t.user].state \in InProgressStates
    /\ ~a.isOffTopic
    /\ IsResponseSatisfactory(a, "in_progress")
    /\ \/ Classified(t, a)
       \/ t.analysis = a /\ TicketUpdated(t)

HandleUserMessage(u, th) ==
    \/ MessageIgnored(u, th)
    \/ Chatter(u, th)
    \/ AbsenceReport(u, th)
    \/ Reply(u, th)

\* C20: a message whose thread id is not the thread of the run is ignored
\* whoever sends it: handleUserMessage changes no field of the run or of a
\* session, cancels and arms no timer, starts no handler and returns no reply.
C20_OtherThreadIgnored ==
    [][\/ /\ UNCHANGED <<tasks, userTimeouts, orphanTimers>>
          /\ UNCHANGED <<standupPhase, standupThreadTs, sessions, developerQueue,
                         currentDeveloper, unavailableDevelopers, summaryCount,
                         pendingBlockerQuestions, detached, functionVars>>
          /\ sent' = {}
       \/ \A th \in MsgThreads :
             ThreadMatches(th) \/ \A u \in Senders : ~HandleUserMessage(u, th)]_vars

\* the current developer was redirected after an off-topic reply; a later
\* message outside the thread of the run was ignored: the timeout armed with
\* the redirect is still pending and nothing else has happened
C20_Witness ==
    \E u \in Users :
        /\ HasSession(u)
        /\ standupThreadTs
        /\ currentDeveloper = u
        /\ sessions[u].state = StandupState.ASKING_IN_PROGRESS
        /\ sessions[u].conversationHistory = 1
        /\ sessions[u].inProgressExchangeCount = 0
        /\ userTimeouts[u] = "initial"
        /\ tasks = EmptyBag
        /\ sent = {}

PromptPosted(v) == Msg("prompt", v) \in sent'

\* the raw-text pass found, in a recorded reply of a, that v is blocking a
FoundByRawPass(a, v) ==
    /\ v \in sessions[a].mentions
    /\ [blocking |-> v, text |-> "canonical"] \in sessions[a].blockerNotes

\* C22: when the prompt of a participant v is posted, it carries, for every
\* participant a in whose reply the raw-text pass found v as blocking, an
\* alert that names a and quotes the blocker in the words of a's reply.
C22_PromptQuotesBlocker ==
    [][\A v \in Users :
          PromptPosted(v)
             => \A a \in DOMAIN sessions :
                   FoundByRawPass(a, v)
                      => BlockerAlert(v, BlockerEntry(v, a, "quoted")) \in sent']_vars

\* startDailyStandup runs in this step
StartStep == StartDailyStandup \/ RestartDailyStandup

\* C23: during a run the ledger only grows: no step other than a call of
\* startDailyStandup removes an entry from it (the activation of a session
\* reads its entries and leaves them in place), and startDailyStandup
\* empties it.
C23_LedgerOnlyGrows ==
    [][IF StartStep
       THEN pendingBlockerQuestions' = EmptyBag
       ELSE pendingBlockerQuestions \sqsubseteq pendingBlockerQuestions']_vars

\* the blocking participant has just been prompted with the alert of an
\* entry, and the entry is still in the ledger
C23_Witness ==
    \E e \in BagToSet(pendingBlockerQuestions) :
        /\ Msg("prompt", e.owner) \in sent
        /\ BlockerAlert(e.owner, e) \in sent
        /\ currentDeveloper = e.owner

\* C24: the ledger never holds two entries with the same blocking
\* participant, the same blocked participant and the same description.
C24_NoDuplicateEntries ==
    \A e \in BagToSet(pendingBlockerQuestions) :
        CopiesIn(e, pendingBlockerQuestions) = 1

\* both passes have stored a blocker of a against b: the classifier's in the
\* words of the reply, the raw-text pass's as `Blocked on <full name>`; the
\* ledger holds each once
C24_Witness ==
    \E a \in DOMAIN sessions, b \in DOMAIN sessions :
        /\ a # b
        /\ b \in sessions[a].mentions
        /\ \A d \in BlockerTexts :
              /\ [blocking |-> b, text |-> d] \in sessions[a].blockerNotes
              /\ CopiesIn(BlockerEntry(b, a, d), pendingBlockerQuestions) = 1

\* sessions that were queued before the step and are shifted off the queue by it
Popped ==
    IF Len(developerQueue') < Len(developerQueue)
    THEN {developerQueue[i] : i \in 1 .. (Len(developerQueue) - Len(developerQueue'))}
    ELSE {}

\* C25: no prompt is posted for a participant of the unavailable set: a
\* session that _askNextDeveloper shifts off the queue while its participant
\* is unavailable is SKIPPED afterwards, gets no prompt and no timer, and the
\* step goes on to the next queued session: it prompts the first available
\* one or, if there is none, completes the run.
C25_UnavailableNeverPrompted ==
    [][/\ \A v \in Users : PromptPosted(v) => v \notin unavailableDevelopers
       /\ \A x \in Popped :
             x \in unavailableDevelopers
                => /\ sessions'[x].state = StandupState.SKIPPED
                   /\ ~PromptPosted(x)
                   /\ currentDeveloper' # x
                   /\ userTimeouts'[x] \in {"none", userTimeouts[x]}
                   /\ \/ /\ currentDeveloper' \in Users \ unavailableDevelopers
                         /\ PromptPosted(currentDeveloper')
                      \/ /\ developerQueue' = << >>
                         /\ currentDeveloper' = NoDeveloper
                         /\ standupPhase' = StandupPhase.COMPLETED]_vars

\* a participant became unavailable while still queued; _askNextDeveloper
\* shifted the session, which was never prompted, marked it SKIPPED and
\* prompted the participant queued after it
C25_Witness ==
    \E x \in DOMAIN sessions, v \in DOMAIN sessions :
        /\ x \in unavailableDevelopers
        /\ sessions[x].state = StandupState.SKIPPED
        /\ ~sessions[x].skipTodoItems
        /\ \A i \in 1 .. Len(developerQueue) : developerQueue[i] # x
        /\ v # x
        /\ currentDeveloper = v
        /\ Msg("prompt", v) \in sent

\* the loop over the team creates and enqueues the sessions in the order of
\* the members, 1 .. NumUsers: x was enqueued before y
EnqueuedBefore(x, y) == x < y

\* _sendInitialPrompt has run for the session of x
Activated(ss, x) == ss[x].skipTodoItems

\* the session of x has been marked SKIPPED: it is SKIPPED, or x is in
\* unavailableDevelopers, where every step that adds x also marks its session
\* SKIPPED and nothing removes x during the run
HasBeenSkipped(ss, unav, x) == ss[x].state = StandupState.SKIPPED \/ x \in unav

\* C26: the sessions are activated in the order of the queue: when the
\* prompt of y is posted, every session enqueued before y has left the queue
\* and has been activated or skipped.
C26_FifoActivation ==
    [][\A y \in Users :
          PromptPosted(y)
             => \A x \in DOMAIN sessions' :
                   EnqueuedBefore(x, y)
                      => /\ \A i \in 1 .. Len(developerQueue') : developerQueue'[i] # x
                         /\ \/ Activated(sessions', x)
                            \/ HasBeenSkipped(sessions', unavailableDevelopers', x)]_vars

\* the second participant of the queue has just been prompted, after the
\* first one was activated and closed its session
C26_Witness ==
    \E x \in DOMAIN sessions, y \in DOMAIN sessions :
        /\ EnqueuedBefore(x, y)
        /\ Activated(sessions, x)
        /\ sessions[x].state \in TerminalStates
        /\ ~Armed(x)
        /\ currentDeveloper = y
        /\ Msg("prompt", y) \in sent
        /\ developerQueue = << >>

\* the step posts the reminder of u (_handleUserInitialTimeout) or marks u
\* SKIPPED and posts its timeout message (_handleUserFinalTimeout)
ReminderPosted(u) == Msg("reminder", u) \in sent'
SkippedByTimeout(u) == Msg("timeout", u) \in sent'

MaxTasks == 4
MAX_IN_PROGRESS_TASKS_TO_ASK == 3

\* the status of a task as _categorizeTasks tests it: the lower-cased name
\* includes 'in progress' or 'in-progress', it includes 'to do', 'todo' or
\* 'open', or neither
TaskStatuses == {"in progress", "to do", "done"}
\* priority names: three of the table and one that the table does not list
PriorityNames == {"highest", "medium", "normal", "urgent"}

priorityOrder ==
    [highest |-> 1, high |-> 2, medium |-> 3, normal |-> 3, low |-> 4, lowest |-> 5]

\* priorityOrder[priority] || 99
PriorityRank(task) ==
    IF task.priority \in DOMAIN priorityOrder THEN priorityOrder[task.priority] ELSE 99

\* the lists that getUserTasks may return: up to MaxTasks tasks, id is the
\* place of the task in the list
JiraTaskLists ==
    LET shapes == UNION {[1 .. n -> TaskStatuses \X PriorityNames] : n \in 0 .. MaxTasks}
    IN  {[i \in DOMAIN f |-> [id |-> i, status |-> f[i][1], priority |-> f[i][2]]] :
            f \in shapes}

\* Array.prototype.sort with sortByPriority: ascending in the rank, tasks of
\* equal rank keep their order
InsertByPriority(sorted, task) ==
    LET n == Cardinality({i \in 1 .. Len(sorted) :
                             PriorityRank(sorted[i]) <= PriorityRank(task)})
    IN  SubSeq(sorted, 1, n) \o <<task>> \o SubSeq(sorted, n + 1, Len(sorted))

RECURSIVE SortByPriority(_)
SortByPriority(list) ==
    IF list = << >> THEN << >>
    ELSE InsertByPriority(SortByPriority(SubSeq(list, 1, Len(list) - 1)), list[Len(list)])

IsInProgress(task) == task.status = "in progress"
IsTodo(task) == task.status = "to do"

\* _categorizeTasks without the two sort calls
CategorizeTasksUnsorted(list) ==
    [inProgressTasks |-> SelectSeq(list, IsInProgress),
     todoTasks |-> SelectSeq(list, IsTodo)]

CategorizeTasks(list) ==
    [inProgressTasks |-> SortByPriority(SelectSeq(list, IsInProgress)),
     todoTasks |-> SortByPriority(SelectSeq(list, IsTodo))]

\* startDailyStandup builds the session of the member from the tasks
CategorizeStep ==
    /\ fnStep = "fetched"
    /\ inProgressTasks' = CategorizeTasks(jiraTasks).inProgressTasks
    /\ fnStep' = "categorized"
    /\ UNCHANGED <<workflowVars, jiraTasks, tasksToAskAbout, classification, satisfactory>>

\* _askAboutInProgressTasks: session.tasksToAskAbout
AskAboutInProgressTasks ==
    /\ fnStep = "categorized"
    /\ tasksToAskAbout' =
           SubSeq(inProgressTasks, 1, Min(Len(inProgressTasks), MAX_IN_PROGRESS_TASKS_TO_ASK))
    /\ fnStep' = "asked"
    /\ UNCHANGED <<workflowVars, jiraTasks, inProgressTasks, classification, satisfactory>>

InitTasks ==
    /\ WorkflowIdle
    /\ jiraTasks \in JiraTaskLists
    /\ inProgressTasks = << >>
    /\ tasksToAskAbout = << >>
    /\ classification = NoClassification
    /\ satisfactory = FALSE
    /\ fnStep = "fetched"

NextTasks == CategorizeStep \/ AskAboutInProgressTasks

SpecTasks == InitTasks /\ [][NextTasks]_vars

\* the in-progress items of the list that getUserTasks returned
InProgressItems == {i \in 1 .. Len(jiraTasks) : IsInProgress(jiraTasks[i])}
\* the items that the prompt asks about
AskedItems == {tasksToAskAbout[j].id : j \in 1 .. Len(tasksToAskAbout)}

\* C29: the in-progress prompt asks about exactly min(n, 3) of the n
\* in-progress items of the participant, each once, and no in-progress item
\* that it leaves out has a strictly higher priority than one that it asks
\* about.
C29_PromptAsksTopThree ==
    fnStep = "asked"
       => /\ Len(tasksToAskAbout) = Min(Cardinality(InProgressItems), 3)
          /\ Cardinality(AskedItems) = Len(tasksToAskAbout)
          /\ AskedItems \subseteq InProgressItems
          /\ \A j \in 1 .. Len(tasksToAskAbout) :
                tasksToAskAbout[j] = jiraTasks[tasksToAskAbout[j].id]
          /\ \A i \in InProgressItems \ AskedItems, j \in AskedItems :
                ~(PriorityRank(jiraTasks[i]) < PriorityRank(jiraTasks[j]))

\* four in-progress items, the one of the highest priority last in the list
\* that getUserTasks returned: the prompt asks about three of them, that one
\* included
C29_Witness ==
    /\ fnStep = "asked"
    /\ Cardinality(InProgressItems) = 4
    /\ Len(tasksToAskAbout) = 3
    /\ jiraTasks[4].priority = "highest"
    /\ \A i \in 1 .. 3 : jiraTasks[i].priority # "highest"
    /\ 4 \in AskedItems

\* ---- _isResponseSatisfactory on the results of the classifier ----
MaxClassifiedUpdates == 2

\* a progress note or timeline of an update: null, the empty string or a text
NoteValues == {"null", "", "text"}
\* u.progressNote || u.timeline
Truthy(value) == value \notin {"null", ""}

\* lengths of the summary around the threshold; 0 is a null or empty summary
\* and 16 the length of 'Update received.'
SummaryLengths == {0, 16, 20, 21}

TaskUpdateLists ==
    UNION {[1 .. n -> [progressNote : NoteValues, timeline : NoteValues]] :
              n \in 0 .. MaxClassifiedUpdates}

Classifications ==
    {NoClassification} \cup
    [present : {TRUE}, taskUpdates : TaskUpdateLists, summaryLength : SummaryLengths,
     needsClarification : BOOLEAN]

\* what the model of the workflow keeps of a classification
AnalysisOf(c) ==
    An(FALSE, Len(c.taskUpdates),
       \E i \in 1 .. Len(c.taskUpdates) :
           Truthy(c.taskUpdates[i].progressNote) \/ Truthy(c.taskUpdates[i].timeline),
       FALSE, 0, c.needsClarification, c.summaryLength > 20)

\* _isResponseSatisfactory(analysis, 'in_progress')
JudgeInProgress ==
    /\ fnStep = "classified"
    /\ satisfactory' = IF ~classification.present
                       THEN FALSE
                       ELSE IsResponseSatisfactory(AnalysisOf(classification), "in_progress")
    /\ fnStep' = "judged"
    /\ UNCHANGED <<workflowVars, jiraTasks, inProgressTasks, tasksToAskAbout, classification>>

InitJudge ==
    /\ WorkflowIdle
    /\ jiraTasks = << >>
    /\ inProgressTasks = << >>
    /\ tasksToAskAbout = << >>
    /\ classification \in Classifications
    /\ satisfactory = FALSE
    /\ fnStep = "classified"

NextJudge == JudgeInProgress

SpecJudge == InitJudge /\ [][NextJudge]_vars

\* the classification has an update with a progress note or a timeline
HasProgressUpdate(c) ==
    \E i \in 1 .. Len(c.taskUpdates) :
        \/ c.taskUpdates[i].progressNote = "text"
        \/ c.taskUpdates[i].timeline = "text"

RESPONSE_TIMEOUT_MS == 120000
FINAL_TIMEOUT_MS == 60000

\* the runs of NextT in which a reply leaves the count of the session as it
\* is: the field reminders is the number of initial timeouts that fired for
\* the participant since _askNextDeveloper posted its prompt
NextI ==
    \/ StartDailyStandup
    \/ \E t \in Running : HeaderSent(t)
    \/ \E t \in Running : MembersFetched(t)
    \/ \E t \in Running : MemberBuilt(t)
    \/ \E t \in Running : LastMemberBuilt(t, FALSE)
    \/ \E t \in Running : PromptSent(t)
    \/ \E u \in Users, th \in MsgThreads : MessageIgnored(u, th)
    \/ \E u \in Users, th \in MsgThreads : Chatter(u, th)
    \/ \E u \in Users, th \in MsgThreads : AbsenceReport(u, th)
    \/ \E u \in Users, th \in MsgThreads : Reply(u, th)
    \/ \E t \in Running : \E a \in TimeoutAnalyses : OffTopic(t, a)
    \/ \E t \in Running : RedirectGenerated(t)
    \/ \E t \in Running : \E a \in TimeoutAnalyses : Classified(t, a)
    \/ \E t \in Running : ClosingSent(t)
    \/ \E t \in Running : DelayElapsed(t)
    \/ \E u \in Users : InitialTimerFiresCounted(u)
    \/ \E t \in Running : ReminderSent(t)
    \/ \E u \in Users : FinalTimerFires(u)
    \/ \E t \in Running : TimeoutMsgSent(t)
    \/ \E t \in Running : SummaryGenerated(t)
    \/ \E t \in Running : SummarySent(t)

SpecI == Init /\ [][NextI]_vars

C32_StaleTimersInert ==
    [][\A u \in Users :
          (StaleInitialTimerFires(u) \/ StaleFinalTimerFires(u))
             => /\ Msg("reminder", u) \notin sent'
                /\ unavailableDevelopers' = unavailableDevelopers
                /\ tasks' = tasks]_vars

\* ---- the workflow with a call of skipUserStandup, under fair scheduling ----
\* the runs in which skipUserStandup may be called.  In these runs the header
\* is posted, nobody is on leave, the messages come from the members of the
\* team in the thread of the run, nobody reports an absence and the replies
\* are on-topic and carry no ticket update and no blocker.
NextK ==
    \/ StartDailyStandup
    \/ \E u \in Users : SkipUserStandup(u)
    \/ \E t \in Running : HeaderSent(t)
    \/ \E t \in Running : MembersFetched(t)
    \/ \E t \in Running : MemberBuilt(t)
    \/ \E t \in Running : LastMemberBuilt(t, FALSE)
    \/ \E t \in Running : PromptSent(t)
    \/ \E u \in Users : Chatter(u, "standup")
    \/ \E u \in Users : Reply(u, "standup")
    \/ \E t \in Running : \E a \in PlainAnalyses : Classified(t, a)
    \/ \E t \in Running : ClosingSent(t)
    \/ \E t \in Running : DelayElapsed(t)
    \/ \E u \in Users : InitialTimerFires(u)
    \/ \E t \in Running : ReminderSent(t)
    \/ \E u \in Users : FinalTimerFires(u)
    \/ \E t \in Running : TimeoutMsgSent(t)
    \/ \E t \in Running : SummaryGenerated(t)
    \/ \E t \in Running : SummarySent(t)

\* an external call of these runs returns to its handler
HandlerStepK ==
    \E t \in Running :
        \/ HeaderSent(t) \/ MembersFetched(t) \/ MemberBuilt(t)
        \/ LastMemberBuilt(t, FALSE) \/ PromptSent(t)
        \/ \E a \in PlainAnalyses : Classified(t, a)
        \/ ClosingSent(t) \/ DelayElapsed(t) \/ ReminderSent(t) \/ TimeoutMsgSent(t)
        \/ SummaryGenerated(t) \/ SummarySent(t)

\* every external call eventually returns and every armed timer eventually fires
SpecK == Init /\ [][NextK]_vars /\ WF_vars(HandlerStepK) /\ WF_vars(TimerStep)

\* skipUserStandup was called in the run and the active participant u is
\* SKIPPED
SkippedWhileActive(u) ==
    /\ standupPhase = StandupPhase.IN_PROGRESS
    /\ skipCalls > 0
    /\ currentDeveloper = u
    /\ HasSession(u)
    /\ sessions[u].state = StandupState.SKIPPED

\* C33: a call of skipUserStandup for the active participant does not stall
\* the run: if from some point on no message arrives, then once the timers
\* have fired and the external calls have returned the participant is no
\* longer the active one (the next session is activated) or the run is
\* completed, without an absence report.
C33_SkipDoesNotStall ==
    InputsStop =>
        \A u \in Users :
            SkippedWhileActive(u)
               ~> (currentDeveloper # u \/ standupPhase = StandupPhase.COMPLETED)

\* C34: at most one timer is pending per participant and it is the one
\* recorded in userTimeouts: no timer is pending outside the map.
C34_OneTimerPerParticipant ==
    \A u \in Users, k \in TimerKinds : ~BagIn(Timer(u, k), orphanTimers)

\* the states of the to-do phase
TodoStates == {StandupState.ASKING_TODO, StandupState.TODO_FOLLOWUP}

OffTopicHandled(t) ==
    /\ t.pc = "analyze"
    /\ tasks' = (tasks (-) Spawn(t)) (+) Spawn(Task("redirect", t.user))
RedirectReturned(t) ==
    /\ t.pc = "redirect"
    /\ tasks' = tasks (-) Spawn(t)

\* the handlers suspended on a call of the tracker
TrackerCalls(bag) == {x \in BagToSet(bag) : x.pc = "jira"}

\* C36: the handling of a reply of the active participant that is classified
\* off-topic leaves the sessions (state, exchange counts, updates, blockers),
\* the ledger, the queue, the active participant and the phase as they are
\* and calls no tracker; it posts the redirect and nothing else, and with the
\* redirect the initial timeout is the participant's recorded timer.
C36_OffTopicReplyInert ==
    [][\A t \in Running :
          (t.user = currentDeveloper /\ (OffTopicHandled(t) \/ RedirectReturned(t)))
             => /\ sessions' = sessions
                /\ pendingBlockerQuestions' = pendingBlockerQuestions
                /\ developerQueue' = developerQueue
                /\ currentDeveloper' = currentDeveloper
                /\ unavailableDevelopers' = unavailableDevelopers
                /\ standupPhase' = standupPhase
                /\ summaryCount' = summaryCount
                /\ orphanTimers' = orphanTimers
                /\ TrackerCalls(tasks') \subseteq TrackerCalls(tasks)
                /\ OffTopicHandled(t) => sent' = {} /\ userTimeouts' = userTimeouts
                /\ RedirectReturned(t)
                      => /\ sent' = {Msg("redirect", t.user)}
                         /\ userTimeouts' = [userTimeouts EXCEPT ![t.user] = "initial"]]_vars

\* the first reply of the active participant was off-topic: the redirect has
\* just been posted, the initial timeout is armed and the session is as the
\* prompt left it
C36_Witness ==
    \E u \in Users :
        /\ HasSession(u)
        /\ currentDeveloper = u
        /\ sent = {Msg("redirect", u)}
        /\ userTimeouts[u] = "initial"
        /\ sessions[u].state = StandupState.ASKING_IN_PROGRESS
        /\ sessions[u].conversationHistory = 1
        /\ sessions[u].inProgressExchangeCount = 0
        /\ sessions[u].updates = 0 /\ sessions[u].blockers = 0
        /\ pendingBlockerQuestions = EmptyBag

\* ---- the blockers section of the summary ----
\* allBlockers of _sendStandupSummary: the participants whose blockers the
\* section lists (all the blockers of a listed session are listed)
AllBlockers(ss) ==
    {u \in DOMAIN ss : ss[u].state = StandupState.COMPLETED /\ ss[u].blockers > 0}

\* the step runs _completeStandup: _sendStandupSummary collects the sections
\* of the summary from the sessions and posts it or asks for its text
SummaryComposed ==
    \E pc \in {"summaryLLM", "summarySend"} :
        CopiesIn(Task(pc, NoDeveloper), tasks') > CopiesIn(Task(pc, NoDeveloper), tasks)

\* C37: every blocker recorded in the blockers list of a session is in the
\* blockers section of the summary of the run, whatever the state of the
\* session.
C37_SummaryListsAllBlockers ==
    [][SummaryComposed
          => \A u \in DOMAIN sessions' :
                sessions'[u].blockers > 0 => u \in AllBlockers(sessions')]_vars

\* C38: every participant in unavailableDevelopers has a session whose state
\* is SKIPPED.
C38_UnavailableAreSkipped ==
    \A u \in unavailableDevelopers :
        HasSession(u) /\ sessions[u].state = StandupState.SKIPPED

\* ---- the starts that fail ----
\* jiraService.getTeamMembers returned no member: startDailyStandup returns
\* false
NoMembersFound(t) ==
    /\ t.pc = "members"
    /\ tasks' = tasks (-) Spawn(t)
    /\ sent' = {}
    /\ UNCHANGED <<standupPhase, standupThreadTs, sessions, developerQueue,
                   currentDeveloper, unavailableDevelopers, userTimeouts,
                   orphanTimers, summaryCount, skipCalls, pendingBlockerQuestions,
                   detached, functionVars>>

\* the runs in which the header may fail to be posted and the team may be
\* empty.  In these runs nobody is on leave, the messages come from the
\* members of the team in the thread of the run, nobody reports an absence
\* and the replies are on-topic and carry no ticket update and no blocker.
NextF ==
    \/ StartDailyStandup
    \/ \E t \in Running : HeaderFailed(t)
    \/ \E t \in Running : HeaderSent(t)
    \/ \E t \in Running : NoMembersFound(t)
    \/ \E t \in Running : MembersFetched(t)
    \/ \E t \in Running : MemberBuilt(t)
    \/ \E t \in Running : LastMemberBuilt(t, FALSE)
    \/ \E t \in Running : PromptSent(t)
    \/ \E u \in Users : Chatter(u, "standup")
    \/ \E u \in Users : Reply(u, "standup")
    \/ \E t \in Running : \E a \in PlainAnalyses : Classified(t, a)
    \/ \E t \in Running : ClosingSent(t)
    \/ \E t \in Running : DelayElapsed(t)
    \/ \E u \in Users : InitialTimerFires(u)
    \/ \E t \in Running : ReminderSent(t)
    \/ \E u \in Users : FinalTimerFires(u)
    \/ \E t \in Running : TimeoutMsgSent(t)
    \/ \E t \in Running : SummaryGenerated(t)
    \/ \E t \in Running : SummarySent(t)

SpecF == Init /\ [][NextF]_vars

\* the step in which startDailyStandup returns false: its handler ends at
\* the await on the header or on the team members
StartReturnsFalse(t) ==
    /\ t.pc \in {"header", "members"}
    /\ tasks' = tasks (-) Spawn(t)

\* C39: when startDailyStandup returns false (the header could not be
\* posted, or no team member was found) the phase of the run is not left at
\* IN_PROGRESS.
C39_FailedStartLeavesPhase ==
    [][\A t \in Running :
          StartReturnsFalse(t) => standupPhase' # StandupPhase.IN_PROGRESS]_vars

\* C40: handleUserMessage changes no field of the run or of a session,
\* cancels and arms no timer, starts no handler and returns no reply when the
\* phase of the run is not IN_PROGRESS or the sender has no session in the
\* run; a sender without a session cannot get the active participant skipped
\* by an absence report.
C40_NoRunOrNoSessionIgnored ==
    [][\/ /\ UNCHANGED <<tasks, userTimeouts, orphanTimers>>
          /\ UNCHANGED <<standupPhase, standupThreadTs, sessions, developerQueue,
                         currentDeveloper, unavailableDevelopers, summaryCount,
                         pendingBlockerQuestions, detached, functionVars>>
          /\ sent' = {}
       \/ \A u \in Senders :
             \/ standupPhase = StandupPhase.IN_PROGRESS /\ HasSession(u)
             \/ \A th \in MsgThreads : ~HandleUserMessage(u, th)]_vars

\* the active participant is being asked, its timeout is armed and nothing is
\* in flight, and a message of a sender without session in the thread of the
\* run is one that handleUserMessage ignores
C40_Witness ==
    \E u \in Users :
        /\ standupPhase = StandupPhase.IN_PROGRESS
        /\ standupThreadTs
        /\ ~HasSession(Outsider)
        /\ currentDeveloper = u
        /\ sessions[u].state = StandupState.ASKING_IN_PROGRESS
        /\ sessions[u].conversationHistory = 0
        /\ userTimeouts[u] = "initial"
        /\ u \notin unavailableDevelopers
        /\ tasks = EmptyBag
        /\ sent = {}
        /\ ENABLED MessageIgnored(Outsider, "standup")

====
